---- MODULE Spec2Model ----
(***************************************************************************)
(* Verification model of obsidian-daily-focus.                             *)
(*                                                                         *)
(* Strings are modelled as sequences of one-character strings, so that     *)
(* toUpperCase, toLowerCase, trim, startsWith and the regular expressions  *)
(* of the source are computed character by character.                      *)
(*                                                                         *)
(* Specifications:                                                         *)
(*   SpecGather     ContextGatherer.gatherEnhancedContext + Reconciler     *)
(*   SpecUnclear    DailyFocusPlugin.detectUnclearItems on the snapshot    *)
(*                  lists VaultReader.readDailyFiles supplies              *)
(*   SpecUnclearAny detectUnclearItems on snapshot lists in any order      *)
(*   SpecParse      parseMarkdownToAgenda scanning a hand-edited note      *)
(*   SpecRoundTrip  renderAgendaToMarkdown followed by parseMarkdownToAgenda *)
(*   SpecMerge      mergeDraftWithResolutions, one resolution per step      *)
(*   SpecDedupe     generateDailyFocus merging the deterministic unclear items *)
(*   SpecSave       generateDailyFocus appending the status tables to the   *)
(*                  rendered draft, and a later parse of the saved note     *)
(*   SpecAgendas    either producer of a DraftAgenda: the parser or the merge *)
(*   SpecTasks      TaskParser.parseAgendaTasks and parseActionItems, one line *)
(*                  of the note per step                                    *)
(*   SpecSchedule   the notification scheduler of one check-in type         *)
(*   SpecGenerate   generateDailyFocus from the triage scan with its retries *)
(*                  to the draft that is reviewed and rendered              *)
(*   SpecGenerateFair  SpecGenerate where every attempt and timer ends      *)
(***************************************************************************)
EXTENDS Integers, Sequences, FiniteSets, TLC

VARIABLES
    \* ContextGatherer.gatherEnhancedContext
    githubFetch,      \* "disabled" | "pending" | "resolved" | "rejected"
    jiraFetch,        \* "disabled" | "pending" | "resolved" | "rejected"
    pullRequests,     \* local let pullRequests
    jiraTickets,      \* local let jiraTickets
    reconciliation,   \* <<>> before reconcile ran, else <<ReconciliationResult>>
    updatedTickets,   \* jiraTickets of the returned EnhancedContext
    \* DailyFocusPlugin.detectUnclearItems
    recentAgendas,    \* the snapshots of context.recentAgendas walked so far
    prevDate,         \* <<>> for null, else <<date>>
    streaks,          \* Map key -> Streak
    focusStreaks,     \* Map key -> Streak
    flagged,          \* Set of keys
    results,          \* UnclearItem[]
    \* parseMarkdownToAgenda
    parserVersion,    \* which of the two copies of the function runs
    lines,            \* the lines of markdown.split("\n") scanned so far
    currentSection,   \* "focusToday" | "quickWins" | "later" | "null"
    agenda,           \* the DraftAgenda being filled
    stopped,          \* TRUE once the loop has taken its break
    \* renderAgendaToMarkdown followed by parseMarkdownToAgenda
    draft,            \* the DraftAgenda handed to renderAgendaToMarkdown
    markdown,         \* <<>> before rendering, else the rendered string
    parsed,           \* <<>> before parsing, else <<DraftAgenda>>
    \* mergeDraftWithResolutions
    triageDraft,      \* the draft argument (triageResponse.draftAgenda)
    resolvedItems,    \* the ResolvedItems processed so far
    merged,           \* the mutable copy being edited
    \* generateDailyFocus, merge of the deterministic unclear items
    llmUnclear,       \* triageResponse.unclearItems as the LLM supplied them
    offered,          \* the items of deterministicUnclear walked so far
    unclearItems,     \* triageResponse.unclearItems
    existing,         \* Set of normalised task texts
    \* TaskParser.parseAgendaTasks and TaskParser.parseActionItems
    taskParser,       \* which of the two methods scans the content
    noteLines,        \* the lines of content.split("\n") scanned so far
    taskSection,      \* parseAgendaTasks: let currentSection
    agendaTasks,      \* parseAgendaTasks: const tasks
    inActionItemsSection, \* parseActionItems: let inActionItemsSection
    actionItems,      \* parseActionItems: const actionItems
    \* DailyFocusPlugin.scheduleNotification, for one check-in type
    scheduledMinute,  \* the type's time setting, as a minute of the day
    reminderInterval, \* settings.reminderInterval, in minutes
    todayStr,         \* the calendar day (getTodayDate), as a day number
    minuteNow,        \* the wall clock's minute of the day
    notificationState, \* this.notificationState[type]
    markedToday,      \* markCheckinComplete(type) has run on the day todayStr
    sentToday,        \* the notifications of the type sent on the day todayStr
    \* LLMService.triageScanWithRetry and steps 4 to 6 of generateDailyFocus
    pc,               \* "triageScan" | "backoff" | "statusUpdate" | "review"
    attempt,          \* triageScanWithRetry: let attempt
    lastError,        \* triageScanWithRetry: <<>> for null, else <<error>>
    outcomes,         \* the outcome of each call of triageScan so far
    delays,           \* the delay of each setTimeout started so far
    retryResult,      \* <<>> while triageScanWithRetry runs, else what it returned or threw
    triageResponse,   \* generateDailyFocus: triageResponse.draftAgenda
    finalDraft,       \* <<>> before step 6, else <<finalDraft>>
    path              \* how finalDraft was made: "triage" | "refined" | "fallback"

gatherVars == <<githubFetch, jiraFetch, pullRequests, jiraTickets,
                reconciliation, updatedTickets>>

unclearVars == <<recentAgendas, prevDate, streaks, focusStreaks, flagged, results>>

parseVars == <<parserVersion, lines, currentSection, agenda, stopped>>

roundTripVars == <<draft, markdown, parsed>>

mergeVars == <<triageDraft, resolvedItems, merged>>

dedupeVars == <<llmUnclear, offered, unclearItems, existing>>

taskVars == <<taskParser, noteLines, taskSection, agendaTasks, inActionItemsSection, actionItems>>

scheduleVars == <<scheduledMinute, reminderInterval, todayStr, minuteNow,
                  notificationState, markedToday, sentToday>>

generateVars == <<pc, attempt, lastError, outcomes, delays, retryResult,
                  triageResponse, finalDraft, path>>

vars == <<gatherVars, unclearVars, parseVars, roundTripVars, mergeVars, dedupeVars, taskVars, scheduleVars, generateVars>>

----------------------------------------------------------------------------
(* Characters and strings                                                  *)

LowerLetters == <<"a","b","c","d","e","f","g","h","i","j","k","l","m",
                  "n","o","p","q","r","s","t","u","v","w","x","y","z">>

UpperLetters == <<"A","B","C","D","E","F","G","H","I","J","K","L","M",
                  "N","O","P","Q","R","S","T","U","V","W","X","Y","Z">>

\* Characters matched by the regular-expression class \s and removed by trim().
Whitespace == {" ", "\t", "\n", "\r"}

\* The upper-case form of each lower-case letter, and the reverse.
UpperOf == [c \in {LowerLetters[i] : i \in 1..26} |->
              UpperLetters[CHOOSE i \in 1..26 : LowerLetters[i] = c]]

LowerOf == [c \in {UpperLetters[i] : i \in 1..26} |->
              LowerLetters[CHOOSE i \in 1..26 : UpperLetters[i] = c]]

UpperChar(c) == IF c \in DOMAIN UpperOf THEN UpperOf[c] ELSE c

LowerChar(c) == IF c \in DOMAIN LowerOf THEN LowerOf[c] ELSE c

\* String.prototype.toUpperCase
toUpperCase(s) == [i \in 1..Len(s) |-> UpperChar(s[i])]

\* String.prototype.toLowerCase
toLowerCase(s) == [i \in 1..Len(s) |-> LowerChar(s[i])]

RECURSIVE TrimStart(_)
TrimStart(s) == IF s # <<>> /\ Head(s) \in Whitespace THEN TrimStart(Tail(s)) ELSE s

RECURSIVE TrimEnd(_)
TrimEnd(s) == IF s # <<>> /\ s[Len(s)] \in Whitespace
              THEN TrimEnd(SubSeq(s, 1, Len(s) - 1)) ELSE s

\* String.prototype.trim
trim(s) == TrimEnd(TrimStart(s))

\* String.prototype.startsWith
startsWith(s, prefix) ==
    Len(s) >= Len(prefix) /\ SubSeq(s, 1, Len(prefix)) = prefix

----------------------------------------------------------------------------
(* Reconciler (src/src/services/reconciler.ts)                             *)

\* A PullRequest is [number, jiraId, hasApproval, hilChecksPassing].  jiraId
\* is a string, the empty string standing for null as well (`if (pr.jiraId)`
\* takes the same branch for both); hilChecksPassing is "true", "false" or
\* "null".  A JiraTicket is [key, status, hasLinkedPR, linkedPRNumber], with
\* linkedPRNumber 0 for null (PR numbers are positive).

MapHas(map, k) == k \in DOMAIN map

MapSet(map, k, v) == [x \in (DOMAIN map) \cup {k} |-> IF x = k THEN v ELSE map[x]]

EmptyMap == [x \in {} |-> x]

\* reconcile, lines 27-31: the lookup map holds a COPY of each ticket
\* ({ ...ticket }) under its uppercased key; a later ticket with the same
\* uppercased key replaces an earlier one.
RECURSIVE BuildTicketMap(_, _)
BuildTicketMap(tickets, map) ==
    IF tickets = <<>> THEN map
    ELSE BuildTicketMap(Tail(tickets),
                        MapSet(map, toUpperCase(Head(tickets).key), Head(tickets)))

\* checkStatusDiscrepancies with pending checks (null) counted as failing.
checkStatusDiscrepancies_PendingFails(pr, ticket, warnings) ==
    LET w1 == IF ticket.status = "In Review" /\ ~pr.hasApproval
              THEN Append(warnings,
                     [type |-> "needs_approval", message |-> "needs approval",
                      prNumber |-> pr.number, jiraKey |-> ticket.key])
              ELSE warnings
        w2 == IF pr.hasApproval /\ ticket.status = "In Progress"
              THEN Append(w1,
                     [type |-> "status_mismatch", message |-> "approved but still In Progress",
                      prNumber |-> pr.number, jiraKey |-> ticket.key])
              ELSE w1
        w3 == IF pr.hilChecksPassing # "true"
              THEN Append(w2,
                     [type |-> "status_mismatch", message |-> "failing HIL checks",
                      prNumber |-> pr.number, jiraKey |-> ticket.key])
              ELSE w2
    IN w3

\* checkStatusDiscrepancies: the three independent checks, appended in order.
checkStatusDiscrepancies(pr, ticket, warnings) ==
    LET w1 == IF ticket.status = "In Review" /\ ~pr.hasApproval
              THEN Append(warnings,
                     [type |-> "needs_approval", message |-> "needs approval",
                      prNumber |-> pr.number, jiraKey |-> ticket.key])
              ELSE warnings
        w2 == IF pr.hasApproval /\ ticket.status = "In Progress"
              THEN Append(w1,
                     [type |-> "status_mismatch", message |-> "approved but still In Progress",
                      prNumber |-> pr.number, jiraKey |-> ticket.key])
              ELSE w1
        w3 == IF pr.hilChecksPassing = "false"
              THEN Append(w2,
                     [type |-> "status_mismatch", message |-> "failing HIL checks",
                      prNumber |-> pr.number, jiraKey |-> ticket.key])
              ELSE w2
    IN w3

\* The ticket object the PR loop marks when a PR matches (lines 40-41).
MarkLinked(ticket, pr) ==
    [ticket EXCEPT !.hasLinkedPR = TRUE, !.linkedPRNumber = pr.number]

\* MatchPR with the match refused once the ticket is already linked, so that
\* only the first PR that references a ticket is matched.
MatchPR_FirstPRWins(st, pr) ==
    IF pr.jiraId # <<>>
       /\ MapHas(st.ticketMap, toUpperCase(pr.jiraId))
       /\ ~st.ticketMap[toUpperCase(pr.jiraId)].hasLinkedPR
    THEN LET ticket == MarkLinked(st.ticketMap[toUpperCase(pr.jiraId)], pr)
         IN [st EXCEPT
               !.ticketMap = MapSet(st.ticketMap, toUpperCase(pr.jiraId), ticket),
               !.matchedPRs = Append(st.matchedPRs, pr),
               !.warnings = checkStatusDiscrepancies(pr, ticket, st.warnings)]
    ELSE [st EXCEPT
               !.unmatchedPRs = Append(st.unmatchedPRs, pr),
               !.warnings = Append(st.warnings,
                  [type |-> "pr_no_ticket", message |-> "ticket not tracked",
                   prNumber |-> pr.number, jiraKey |-> pr.jiraId])]

\* MatchPR with no warning for a PR whose jiraId is no ticket's key.
MatchPR_SilentUntracked(st, pr) ==
    IF pr.jiraId # <<>>
    THEN IF MapHas(st.ticketMap, toUpperCase(pr.jiraId))
         THEN LET ticket == MarkLinked(st.ticketMap[toUpperCase(pr.jiraId)], pr)
              IN [st EXCEPT
                    !.ticketMap = MapSet(st.ticketMap, toUpperCase(pr.jiraId), ticket),
                    !.matchedPRs = Append(st.matchedPRs, pr),
                    !.warnings = checkStatusDiscrepancies(pr, ticket, st.warnings)]
         ELSE [st EXCEPT !.unmatchedPRs = Append(st.unmatchedPRs, pr)]
    ELSE [st EXCEPT
                    !.unmatchedPRs = Append(st.unmatchedPRs, pr),
                    !.warnings = Append(st.warnings,
                       [type |-> "pr_no_ticket", message |-> "no Jira ticket ID in title",
                        prNumber |-> pr.number, jiraKey |-> <<>>])]

\* One iteration of the PR loop (lines 34-65) on the loop state
\* st = [ticketMap, matchedPRs, unmatchedPRs, warnings].
MatchPR(st, pr) ==
    IF pr.jiraId # <<>>
    THEN IF MapHas(st.ticketMap, toUpperCase(pr.jiraId))
         THEN LET ticket == MarkLinked(st.ticketMap[toUpperCase(pr.jiraId)], pr)
              IN [st EXCEPT
                    !.ticketMap = MapSet(st.ticketMap, toUpperCase(pr.jiraId), ticket),
                    !.matchedPRs = Append(st.matchedPRs, pr),
                    !.warnings = checkStatusDiscrepancies(pr, ticket, st.warnings)]
         ELSE [st EXCEPT
                    !.unmatchedPRs = Append(st.unmatchedPRs, pr),
                    !.warnings = Append(st.warnings,
                       [type |-> "pr_no_ticket", message |-> "ticket not tracked",
                        prNumber |-> pr.number, jiraKey |-> pr.jiraId])]
    ELSE [st EXCEPT
                    !.unmatchedPRs = Append(st.unmatchedPRs, pr),
                    !.warnings = Append(st.warnings,
                       [type |-> "pr_no_ticket", message |-> "no Jira ticket ID in title",
                        prNumber |-> pr.number, jiraKey |-> <<>>])]

RECURSIVE MatchPRs(_, _)
MatchPRs(st, prs) ==
    IF prs = <<>> THEN st ELSE MatchPRs(MatchPR(st, Head(prs)), Tail(prs))

\* ClassifyTicket that lists a ticket without a linked PR as unmatched only
\* when it warns about it.
ClassifyTicket_OnlyWarned(st, ticket) ==
    IF ticket.hasLinkedPR
    THEN [st EXCEPT !.matchedTickets = Append(st.matchedTickets, ticket)]
    ELSE IF ticket.status = "In Review"
         THEN [st EXCEPT
                 !.unmatchedTickets = Append(st.unmatchedTickets, ticket),
                 !.warnings = Append(st.warnings,
                                [type |-> "ticket_no_pr", message |-> "In Review but no open PR",
                                 prNumber |-> 0, jiraKey |-> ticket.key])]
         ELSE st

\* One iteration of the second loop (lines 68-83) on
\* st = [matchedTickets, unmatchedTickets, warnings].  `ticket` is an element of
\* the caller's list: `for (const ticket of tickets)` walks the input objects,
\* not the copies held (and marked) in ticketMap.
ClassifyTicket(st, ticket) ==
    IF ticket.hasLinkedPR
    THEN [st EXCEPT !.matchedTickets = Append(st.matchedTickets, ticket)]
    ELSE [st EXCEPT
            !.unmatchedTickets = Append(st.unmatchedTickets, ticket),
            !.warnings = IF ticket.status = "In Review"
                         THEN Append(st.warnings,
                                [type |-> "ticket_no_pr", message |-> "In Review but no open PR",
                                 prNumber |-> 0, jiraKey |-> ticket.key])
                         ELSE st.warnings]

RECURSIVE ClassifyTickets(_, _)
ClassifyTickets(st, tickets) ==
    IF tickets = <<>> THEN st
    ELSE ClassifyTickets(ClassifyTicket(st, Head(tickets)), Tail(tickets))

\* Reconciler.reconcile
reconcile(prs, tickets) ==
    LET afterPRs == MatchPRs([ticketMap |-> BuildTicketMap(tickets, EmptyMap),
                              matchedPRs |-> <<>>, unmatchedPRs |-> <<>>,
                              warnings |-> <<>>], prs)
        afterTickets == ClassifyTickets([matchedTickets |-> <<>>,
                                         unmatchedTickets |-> <<>>,
                                         warnings |-> afterPRs.warnings],
                                        tickets)
    IN [matchedPRs |-> afterPRs.matchedPRs,
        matchedTickets |-> afterTickets.matchedTickets,
        unmatchedPRs |-> afterPRs.unmatchedPRs,
        unmatchedTickets |-> afterTickets.unmatchedTickets,
        warnings |-> afterTickets.warnings]

----------------------------------------------------------------------------
(* ContextGatherer.gatherEnhancedContext (src/src/services/vault-reader.ts) *)

MaxPRs == 2
MaxTickets == 2

FSW12 == <<"F","S","W","-","1","2">>
fsw12 == <<"f","s","w","-","1","2">>
FSW13 == <<"F","S","W","-","1","3">>
FSW99 == <<"F","S","W","-","9","9">>

PR(n, id, approved, hil) ==
    [number |-> n, jiraId |-> id, hasApproval |-> approved, hilChecksPassing |-> hil]

\* Pull requests GitHubService.fetchOpenPRs can return: the jiraId is null
\* or an uppercased FSW-<digits> (extractJiraId), the number identifies the PR.
PullRequestPool ==
    { PR(1, FSW12, FALSE, "null"),  PR(2, FSW12, TRUE, "true"),
      PR(3, FSW12, TRUE, "false"),  PR(4, FSW13, FALSE, "false"),
      PR(5, <<>>, FALSE, "true"),   PR(6, FSW99, TRUE, "null") }

\* Tickets JiraService.fetchActiveTickets can return: status In Progress or
\* In Review (the JQL filter), hasLinkedPR false and linkedPRNumber null.
TicketPool ==
    { [key |-> k, status |-> st, hasLinkedPR |-> FALSE, linkedPRNumber |-> 0]
        : k \in {FSW12, fsw12, FSW13}, st \in {"In Progress", "In Review"} }

\* The open PRs of one fetch: at most MaxPRs, pairwise different numbers.
PRLists ==
    UNION { { l \in [1..k -> PullRequestPool] :
                \A i, j \in 1..k : i # j => l[i].number # l[j].number }
            : k \in 0..MaxPRs }

\* The tickets of one fetch: at most MaxTickets, pairwise different keys
\* (JIRA keys are unique as written; two may still differ only in case).
TicketLists ==
    UNION { { l \in [1..k -> TicketPool] :
                \A i, j \in 1..k : i # j => l[i].key # l[j].key }
            : k \in 0..MaxTickets }

\* Array.prototype.find over matchedTickets by exact key (line 1372).
RECURSIVE FindByKey(_, _)
FindByKey(ts, key) ==
    IF ts = <<>> THEN <<>>
    ELSE IF Head(ts).key = key THEN <<Head(ts)>> ELSE FindByKey(Tail(ts), key)

\* jiraTickets.map(ticket => matched || ticket), lines 1371-1374.
UpdateTickets(tickets, result) ==
    [i \in 1..Len(tickets) |->
        IF FindByKey(result.matchedTickets, tickets[i].key) # <<>>
        THEN FindByKey(result.matchedTickets, tickets[i].key)[1]
        ELSE tickets[i]]

GatherIdle ==
    /\ githubFetch = "disabled" /\ jiraFetch = "disabled"
    /\ pullRequests = <<>> /\ jiraTickets = <<>>
    /\ reconciliation = <<>> /\ updatedTickets = <<>>

UnclearIdle ==
    /\ recentAgendas = <<>> /\ prevDate = <<>>
    /\ streaks = <<>> /\ focusStreaks = <<>>
    /\ flagged = {} /\ results = <<>>

\* A DraftAgenda with three empty buckets (markdown-utils.ts lines 154-158).
EmptyAgenda == [focusToday |-> <<>>, quickWins |-> <<>>, later |-> <<>>]

ParseIdle ==
    /\ parserVersion = "markdown-utils"
    /\ lines = <<>> /\ currentSection = "null"
    /\ agenda = EmptyAgenda /\ stopped = FALSE

RoundTripIdle ==
    /\ draft = EmptyAgenda /\ markdown = <<>> /\ parsed = <<>>

MergeIdle ==
    /\ triageDraft = EmptyAgenda /\ resolvedItems = <<>> /\ merged = EmptyAgenda

DedupeIdle ==
    /\ llmUnclear = <<>> /\ offered = <<>> /\ unclearItems = <<>> /\ existing = {}

GenerateIdle ==
    /\ pc = "review" /\ attempt = 0 /\ lastError = <<>> /\ outcomes = <<>> /\ delays = <<>>
    /\ retryResult = <<>> /\ triageResponse = EmptyAgenda /\ finalDraft = <<>> /\ path = "none"

ScheduleIdle ==
    /\ scheduledMinute = 0 /\ reminderInterval = 0 /\ todayStr = 0 /\ minuteNow = 0
    /\ notificationState = [lastNotified |-> 0, completed |-> FALSE, lastReminderTime |-> 0]
    /\ markedToday = FALSE /\ sentToday = <<>>

TaskIdle ==
    /\ taskParser = "parseAgendaTasks" /\ noteLines = <<>> /\ taskSection = <<>>
    /\ agendaTasks = <<>> /\ inActionItemsSection = FALSE /\ actionItems = <<>>

\* Lines 1317-1362: both lists start empty; a fetch is started for each
\* configured service.
InitGather ==
    /\ githubFetch \in {"disabled", "pending"}
    /\ jiraFetch \in {"disabled", "pending"}
    /\ pullRequests = <<>>
    /\ jiraTickets = <<>>
    /\ reconciliation = <<>>
    /\ updatedTickets = <<>>
    /\ UnclearIdle /\ ParseIdle /\ RoundTripIdle /\ MergeIdle /\ DedupeIdle /\ TaskIdle /\ ScheduleIdle /\ GenerateIdle

\* fetchOpenPRs().then(prs => pullRequests = prs)
GithubResolve(prs) ==
    /\ githubFetch = "pending"
    /\ githubFetch' = "resolved"
    /\ pullRequests' = prs
    /\ UNCHANGED <<jiraFetch, jiraTickets, reconciliation, updatedTickets>>
    /\ UNCHANGED <<unclearVars, parseVars, roundTripVars, mergeVars, dedupeVars, taskVars, scheduleVars, generateVars>>

\* fetchOpenPRs() rejects: .catch logs, pullRequests keeps its initial [].
GithubReject ==
    /\ githubFetch = "pending"
    /\ githubFetch' = "rejected"
    /\ UNCHANGED <<pullRequests, jiraFetch, jiraTickets, reconciliation, updatedTickets>>
    /\ UNCHANGED <<unclearVars, parseVars, roundTripVars, mergeVars, dedupeVars, taskVars, scheduleVars, generateVars>>

\* fetchActiveTickets().then(tickets => jiraTickets = tickets).  A failing
\* jira CLI makes fetchActiveTickets resolve with [] (part_002 lines 151-191).
JiraResolve(tickets) ==
    /\ jiraFetch = "pending"
    /\ jiraFetch' = "resolved"
    /\ jiraTickets' = tickets
    /\ UNCHANGED <<githubFetch, pullRequests, reconciliation, updatedTickets>>
    /\ UNCHANGED <<unclearVars, parseVars, roundTripVars, mergeVars, dedupeVars, taskVars, scheduleVars, generateVars>>

\* GatherReconcile without waiting for the PR fetch.
GatherReconcile_BeforeGithub ==
    /\ jiraFetch # "pending"
    /\ reconciliation = <<>>
    /\ \E result \in {reconcile(pullRequests, jiraTickets)} :
          /\ reconciliation' = <<result>>
          /\ updatedTickets' = UpdateTickets(jiraTickets, result)
    /\ UNCHANGED <<githubFetch, jiraFetch, pullRequests, jiraTickets>>
    /\ UNCHANGED <<unclearVars, parseVars, roundTripVars, mergeVars, dedupeVars, taskVars, scheduleVars, generateVars>>

\* After `await Promise.all(fetchPromises)`: reconcile, then build the
\* returned ticket list (lines 1365-1381).
GatherReconcile ==
    /\ githubFetch # "pending"
    /\ jiraFetch # "pending"
    /\ reconciliation = <<>>
    /\ \E result \in {reconcile(pullRequests, jiraTickets)} :
          /\ reconciliation' = <<result>>
          /\ updatedTickets' = UpdateTickets(jiraTickets, result)
    /\ UNCHANGED <<githubFetch, jiraFetch, pullRequests, jiraTickets>>
    /\ UNCHANGED <<unclearVars, parseVars, roundTripVars, mergeVars, dedupeVars, taskVars, scheduleVars, generateVars>>

NextGather ==
    \/ \E prs \in PRLists : GithubResolve(prs)
    \/ GithubReject
    \/ \E tickets \in TicketLists : JiraResolve(tickets)
    \/ GatherReconcile

SpecGather == InitGather /\ [][NextGather]_vars

----------------------------------------------------------------------------
(* Claims about Reconciler.reconcile, checked under SpecGather             *)

Reconciled == reconciliation # <<>>
Result == reconciliation[1]

Indices(seq) == 1..Len(seq)
Count(seq, x) == Cardinality({i \in Indices(seq) : seq[i] = x})
SameBag(a, b) ==
    /\ Len(a) = Len(b)
    /\ \A i \in Indices(a) : Count(a, a[i]) = Count(b, a[i])

\* The PR references the ticket: its jiraId equals the key ignoring case.
References(pr, ticket) ==
    pr.jiraId # <<>> /\ toUpperCase(pr.jiraId) = toUpperCase(ticket.key)

\* C1 (as claimed).  For every PR whose jiraId equals a ticket's key ignoring
\* case, the PR is in matchedPRs and matchedTickets contains that ticket with
\* hasLinkedPR = true and linkedPRNumber equal to the PR's number.  Stated for
\* the unambiguous case: one PR references the ticket and no other ticket has
\* the same key ignoring case.
C1_MatchedTicketLinked ==
    Reconciled =>
      \A i \in Indices(pullRequests), j \in Indices(jiraTickets) :
        ( /\ References(pullRequests[i], jiraTickets[j])
          /\ \A i2 \in Indices(pullRequests) :
                References(pullRequests[i2], jiraTickets[j]) => i2 = i
          /\ \A j2 \in Indices(jiraTickets) :
                toUpperCase(jiraTickets[j2].key) = toUpperCase(jiraTickets[j].key) => j2 = j )
        => /\ \E m \in Indices(Result.matchedPRs) : Result.matchedPRs[m] = pullRequests[i]
           /\ \E m \in Indices(Result.matchedTickets) :
                 /\ Result.matchedTickets[m].key = jiraTickets[j].key
                 /\ Result.matchedTickets[m].hasLinkedPR
                 /\ Result.matchedTickets[m].linkedPRNumber = pullRequests[i].number

\* C2 (as claimed).  A ticket gets a ticket_no_pr warning exactly when its
\* status is "In Review" and no PR references it: one warning for each such
\* ticket, none for any other ticket.
TicketNoPRWarnings(ticket) ==
    Cardinality({w \in Indices(Result.warnings) :
                    /\ Result.warnings[w].type = "ticket_no_pr"
                    /\ Result.warnings[w].jiraKey = ticket.key})

C2_TicketNoPRExactly ==
    Reconciled =>
      \A j \in Indices(jiraTickets) :
        TicketNoPRWarnings(jiraTickets[j]) =
          IF /\ jiraTickets[j].status = "In Review"
             /\ \A i \in Indices(pullRequests) : ~References(pullRequests[i], jiraTickets[j])
          THEN 1 ELSE 0

\* Every reordering of a list.
PermutationsOf(seq) ==
    { [i \in Indices(seq) |-> seq[f[i]]] :
        f \in { g \in [Indices(seq) -> Indices(seq)] :
                   \A a, b \in Indices(seq) : a # b => g[a] # g[b] } }

\* Two results agree up to the order of their lists: the same matched and
\* unmatched PRs and tickets (the tickets with their linkedPRNumber) and the
\* same multiset of warnings.
SameResult(r1, r2) ==
    /\ SameBag(r1.matchedPRs, r2.matchedPRs)
    /\ SameBag(r1.unmatchedPRs, r2.unmatchedPRs)
    /\ SameBag(r1.matchedTickets, r2.matchedTickets)
    /\ SameBag(r1.unmatchedTickets, r2.unmatchedTickets)
    /\ SameBag(r1.warnings, r2.warnings)

OrderInsensitive ==
    \A prs \in PermutationsOf(pullRequests), tickets \in PermutationsOf(jiraTickets) :
        SameResult(reconcile(prs, tickets), Result)

NoKeyCollision ==
    \A j, j2 \in Indices(jiraTickets) :
        toUpperCase(jiraTickets[j].key) = toUpperCase(jiraTickets[j2].key) => j = j2

\* C8 (as claimed).  reconcile gives the same result, up to order, for every
\* permutation of the PR list and of the ticket list, also when two tickets
\* have keys equal ignoring case.
C8_OrderInsensitiveAlways == Reconciled => OrderInsensitive

\* C8 (amended).  When no two tickets have keys equal ignoring case, reconcile
\* gives the same result, up to order, for every permutation of the PR list
\* and of the ticket list, also when two PRs reference the same ticket.
C8_OrderInsensitive == (Reconciled /\ NoKeyCollision) => OrderInsensitive

\* C8 witness: two PRs that reference the same ticket and two tickets with
\* different keys were reconciled, with warnings from both loops.
C8_Witness ==
    /\ Reconciled /\ NoKeyCollision
    /\ Len(pullRequests) = 2 /\ Len(jiraTickets) = 2
    /\ \E j \in Indices(jiraTickets) :
          References(pullRequests[1], jiraTickets[j]) /\ References(pullRequests[2], jiraTickets[j])
    /\ \E w \in Indices(Result.warnings) : Result.warnings[w].type = "ticket_no_pr"
    /\ \E w \in Indices(Result.warnings) : Result.warnings[w].type = "status_mismatch"
    /\ Result.warnings # reconcile(<<pullRequests[2], pullRequests[1]>>, jiraTickets).warnings

----------------------------------------------------------------------------
(* Dates (src/unnamed/part_000, date-utils)                                *)

\* A date string YYYY-MM-DD is modelled by its three numbers <<y, m, d>>.
IsLeapYear(y) == (y % 4 = 0 /\ y % 100 # 0) \/ y % 400 = 0

DaysInMonth(y, m) ==
    IF m = 2 THEN (IF IsLeapYear(y) THEN 29 ELSE 28)
    ELSE IF m \in {4, 6, 9, 11} THEN 30 ELSE 31

RECURSIVE DaysBeforeMonth(_, _)
DaysBeforeMonth(y, m) ==
    IF m <= 1 THEN 0 ELSE DaysBeforeMonth(y, m - 1) + DaysInMonth(y, m - 1)

\* Date.getTime() of local midnight, in whole days.
DayNumber(date) ==
    LET y == date[1] - 1
    IN 365 * y + (y \div 4) - (y \div 100) + (y \div 400)
       + DaysBeforeMonth(date[1], date[2]) + date[3]

\* parseDate: <<>> for null (a day the month does not have), else <<DayNumber>>.
parseDate(date) ==
    IF date[2] \in 1..12 /\ date[3] \in 1..DaysInMonth(date[1], date[2])
    THEN <<DayNumber(date)>> ELSE <<>>

\* b.date.localeCompare(a.date) <= 0 on YYYY-MM-DD strings: a is not before b.
DateNotBefore(a, b) ==
    \/ a[1] > b[1]
    \/ a[1] = b[1] /\ a[2] > b[2]
    \/ a[1] = b[1] /\ a[2] = b[2] /\ a[3] >= b[3]

----------------------------------------------------------------------------
(* DailyFocusPlugin.detectUnclearItems (src/src/main.ts)                   *)

\* text.replace(/\s+/g, " "): every maximal run of whitespace becomes one space.
RECURSIVE CollapseWhitespace(_)
CollapseWhitespace(s) ==
    IF s = <<>> THEN <<>>
    ELSE IF Head(s) \in Whitespace
         THEN <<" ">> \o CollapseWhitespace(TrimStart(s))
         ELSE <<Head(s)>> \o CollapseWhitespace(Tail(s))

\* normalizeTaskText keeping only the first word of the normalised text (a
\* looser identity: "do it" and "do" share a key).
normalizeTaskText_FirstWord(text) ==
    LET n == CollapseWhitespace(toLowerCase(trim(text)))
        cut == { i \in 1..Len(n) : n[i] = " " }
    IN IF cut = {} THEN n
       ELSE SubSeq(n, 1, (CHOOSE i \in cut : \A j \in cut : i <= j) - 1)

\* normalizeTaskText
normalizeTaskText(text) == CollapseWhitespace(toLowerCase(trim(text)))

\* areConsecutiveDates taking the absolute difference (one day in either direction).
areConsecutiveDates_Abs(newer, older) ==
    /\ parseDate(newer) # <<>>
    /\ parseDate(older) # <<>>
    /\ parseDate(newer)[1] - parseDate(older)[1] \in {1, -1}

\* areConsecutiveDates accepting any later date as the newer one (>= 1).
areConsecutiveDates_AtLeastOne(newer, older) ==
    /\ parseDate(newer) # <<>>
    /\ parseDate(older) # <<>>
    /\ parseDate(newer)[1] - parseDate(older)[1] >= 1

\* areConsecutiveDates(newerDateStr, olderDateStr): Math.round(diffMs / dayMs) === 1
areConsecutiveDates(newer, older) ==
    /\ parseDate(newer) # <<>>
    /\ parseDate(older) # <<>>
    /\ parseDate(newer)[1] - parseDate(older)[1] = 1

FocusToday == <<"F","o","c","u","s"," ","t","o","d","a","y">>
QuickWins == <<"Q","u","i","c","k"," ","w","i","n","s">>
Later == <<"L","a","t","e","r">>

\* A JavaScript Map<string, string> keeps its keys in insertion order: a
\* sequence of [key, text]; set on a present key replaces the value in place.
OMapSet(om, k, v) ==
    IF \E i \in 1..Len(om) : om[i].key = k
    THEN [i \in 1..Len(om) |-> IF om[i].key = k THEN [key |-> k, text |-> v] ELSE om[i]]
    ELSE Append(om, [key |-> k, text |-> v])

\* DayTasks without the `if (task.complete) continue` of line 342.
RECURSIVE DayTasks_IncludeComplete(_, _, _)
DayTasks_IncludeComplete(tasks, focusOnly, om) ==
    IF tasks = <<>> THEN om
    ELSE LET task == Head(tasks)
         IN DayTasks_IncludeComplete(Tail(tasks), focusOnly,
                IF focusOnly /\ task.section # FocusToday THEN om
                ELSE OMapSet(om, normalizeTaskText(task.text), task.text))

\* Lines 341-348: dayTasks (focusOnly = FALSE) and dayFocusTasks (TRUE).
RECURSIVE DayTasks(_, _, _)
DayTasks(tasks, focusOnly, om) ==
    IF tasks = <<>> THEN om
    ELSE LET task == Head(tasks)
         IN DayTasks(Tail(tasks), focusOnly,
                IF task.complete THEN om
                ELSE IF focusOnly /\ task.section # FocusToday THEN om
                ELSE OMapSet(om, normalizeTaskText(task.text), task.text))

\* The streak maps the iteration reads: emptied when the previous and the
\* current date are not consecutive (lines 332-336).
StreaksRead(map, prev, date) ==
    IF prev # <<>> /\ ~areConsecutiveDates(prev[1], date) THEN EmptyMap ELSE map

\* The threshold of the all-tasks rule (line 357) and of the Focus rule (line 375).
IncompleteThreshold == 3
FocusThreshold == 2

\* StreakPass with the threshold test off by one (count > threshold).
RECURSIVE StreakPass_StrictlyGreater(_, _, _, _, _, _)
StreakPass_StrictlyGreater(entries, prior, date, rule, threshold, st) ==
    IF entries = <<>> THEN st
    ELSE LET key == Head(entries).key
             text == Head(entries).text
             count == IF MapHas(prior, key) THEN prior[key].count + 1 ELSE 1
             startDate == IF MapHas(prior, key) THEN prior[key].startDate ELSE date
             emit == count > threshold /\ key \notin st.flagged
         IN StreakPass_StrictlyGreater(Tail(entries), prior, date, rule, threshold,
               [next |-> MapSet(st.next, key,
                           [count |-> count, startDate |-> startDate, text |-> text]),
                flagged |-> IF emit THEN st.flagged \cup {key} ELSE st.flagged,
                results |-> IF emit
                            THEN Append(st.results,
                                   [task |-> text, source |-> startDate,
                                    rule |-> rule, days |-> count])
                            ELSE st.results])

\* StreakPass without the `!flagged.has(key)` test.
RECURSIVE StreakPass_NoFlagTest(_, _, _, _, _, _)
StreakPass_NoFlagTest(entries, prior, date, rule, threshold, st) ==
    IF entries = <<>> THEN st
    ELSE LET key == Head(entries).key
             text == Head(entries).text
             count == IF MapHas(prior, key) THEN prior[key].count + 1 ELSE 1
             startDate == IF MapHas(prior, key) THEN prior[key].startDate ELSE date
             emit == count >= threshold
         IN StreakPass_NoFlagTest(Tail(entries), prior, date, rule, threshold,
               [next |-> MapSet(st.next, key,
                           [count |-> count, startDate |-> startDate, text |-> text]),
                flagged |-> IF emit THEN st.flagged \cup {key} ELSE st.flagged,
                results |-> IF emit
                            THEN Append(st.results,
                                   [task |-> text, source |-> startDate,
                                    rule |-> rule, days |-> count])
                            ELSE st.results])

\* StreakPass with startDate set to the date of the snapshot being processed
\* (the earliest date of the run) instead of being inherited.
RECURSIVE StreakPass_StartAtCurrent(_, _, _, _, _, _)
StreakPass_StartAtCurrent(entries, prior, date, rule, threshold, st) ==
    IF entries = <<>> THEN st
    ELSE LET key == Head(entries).key
             text == Head(entries).text
             count == IF MapHas(prior, key) THEN prior[key].count + 1 ELSE 1
             emit == count >= threshold /\ key \notin st.flagged
         IN StreakPass_StartAtCurrent(Tail(entries), prior, date, rule, threshold,
               [next |-> MapSet(st.next, key,
                           [count |-> count, startDate |-> date, text |-> text]),
                flagged |-> IF emit THEN st.flagged \cup {key} ELSE st.flagged,
                results |-> IF emit
                            THEN Append(st.results,
                                   [task |-> text, source |-> date,
                                    rule |-> rule, days |-> count])
                            ELSE st.results])

\* One pass of lines 350-366 (rule = "incomplete") or 368-384 (rule = "focus")
\* over the entries of a day map, on st = [next, flagged, results].
RECURSIVE StreakPass(_, _, _, _, _, _)
StreakPass(entries, prior, date, rule, threshold, st) ==
    IF entries = <<>> THEN st
    ELSE LET key == Head(entries).key
             text == Head(entries).text
             count == IF MapHas(prior, key) THEN prior[key].count + 1 ELSE 1
             startDate == IF MapHas(prior, key) THEN prior[key].startDate ELSE date
             emit == count >= threshold /\ key \notin st.flagged
         IN StreakPass(Tail(entries), prior, date, rule, threshold,
               [next |-> MapSet(st.next, key,
                           [count |-> count, startDate |-> startDate, text |-> text]),
                flagged |-> IF emit THEN st.flagged \cup {key} ELSE st.flagged,
                results |-> IF emit
                            THEN Append(st.results,
                                   [task |-> text, source |-> startDate,
                                    rule |-> rule, days |-> count])
                            ELSE st.results])

\* The body of `for (const agenda of context.recentAgendas)`, lines 331-389,
\* as a function of the loop state: the next streak maps, flagged and results.
AgendaStep(dayAgenda, prev, allStreaks, allFocusStreaks, flaggedKeys, items) ==
    LET all == StreakPass(DayTasks(dayAgenda.tasks, FALSE, <<>>),
                          StreaksRead(allStreaks, prev, dayAgenda.date),
                          dayAgenda.date, "incomplete", IncompleteThreshold,
                          [next |-> EmptyMap, flagged |-> flaggedKeys, results |-> items])
        focus == StreakPass(DayTasks(dayAgenda.tasks, TRUE, <<>>),
                            StreaksRead(allFocusStreaks, prev, dayAgenda.date),
                            dayAgenda.date, "focus", FocusThreshold,
                            [next |-> EmptyMap, flagged |-> all.flagged,
                             results |-> all.results])
    IN [streaks |-> all.next, focusStreaks |-> focus.next,
        flagged |-> focus.flagged, results |-> focus.results]

\* One iteration of the loop over context.recentAgendas.
ProcessAgenda(dayAgenda) ==
    \E step \in {AgendaStep(dayAgenda, prevDate, streaks, focusStreaks, flagged, results)} :
       /\ recentAgendas' = Append(recentAgendas, dayAgenda)
       /\ streaks' = step.streaks
       /\ focusStreaks' = step.focusStreaks
       /\ flagged' = step.flagged
       /\ results' = step.results
       /\ prevDate' = <<dayAgenda.date>>
       /\ UNCHANGED <<gatherVars, parseVars, roundTripVars, mergeVars, dedupeVars, taskVars, scheduleVars, generateVars>>

MaxSnapshots == 4
MaxWalk == 3

Dates == { <<2024, 2, 27>>, <<2024, 2, 28>>, <<2024, 2, 29>>,
           <<2024, 3, 1>>, <<2024, 3, 2>> }

DoIt == <<"D","o"," ","i","t">>
doIt2 == <<"d","o"," "," ","i","t">>
Fix == <<"F","i","x">>

Task(text, section, complete) ==
    [text |-> text, section |-> section, complete |-> complete]

\* Task lists TaskParser.parseAgendaTasks can return for a daily note (texts
\* are trimmed, the section is the heading above the line or "").
TaskLists ==
    { << Task(DoIt, FocusToday, FALSE) >>,
      << Task(doIt2, Later, FALSE), Task(Fix, FocusToday, FALSE) >>,
      << Task(DoIt, FocusToday, TRUE), Task(Fix, <<>>, FALSE),
         Task(<<"D","o">>, Later, FALSE) >>,
      << Task(DoIt, Later, FALSE), Task(doIt2, FocusToday, FALSE) >> }

Snapshots == { [date |-> d, tasks |-> ts] : d \in Dates, ts \in TaskLists }

InitUnclear ==
    /\ recentAgendas = <<>>
    /\ prevDate = <<>>
    /\ streaks = EmptyMap
    /\ focusStreaks = EmptyMap
    /\ flagged = {}
    /\ results = <<>>
    /\ GatherIdle /\ ParseIdle /\ RoundTripIdle /\ MergeIdle /\ DedupeIdle /\ TaskIdle /\ ScheduleIdle /\ GenerateIdle

\* VaultReader.readDailyFiles sorts the snapshots most recent first
\* (vault-reader.ts line 85); two notes in different subfolders can share a date.
SuppliedMostRecentFirst(dayAgenda) ==
    IF prevDate = <<>> THEN TRUE ELSE DateNotBefore(prevDate[1], dayAgenda.date)

NextUnclear ==
    \E dayAgenda \in Snapshots :
        /\ Len(recentAgendas) < MaxSnapshots
        /\ SuppliedMostRecentFirst(dayAgenda)
        /\ ProcessAgenda(dayAgenda)

SpecUnclear == InitUnclear /\ [][NextUnclear]_vars

\* detectUnclearItems on a snapshot list in any order.
NextUnclearAny ==
    \E dayAgenda \in Snapshots :
        /\ Len(recentAgendas) < MaxWalk
        /\ ProcessAgenda(dayAgenda)

SpecUnclearAny == InitUnclear /\ [][NextUnclearAny]_vars

----------------------------------------------------------------------------
(* Claims about detectUnclearItems.  Every reachable state is the state in *)
(* which detectUnclearItems returns `results` for the list recentAgendas.  *)

Walked == Len(recentAgendas)

\* The keys of the tasks of snapshot i that are incomplete (in section
\* "Focus today" when focusOnly).
KeysOn(i, focusOnly) ==
    { normalizeTaskText(recentAgendas[i].tasks[t].text) :
        t \in { u \in Indices(recentAgendas[i].tasks) :
                  /\ ~recentAgendas[i].tasks[u].complete
                  /\ focusOnly => recentAgendas[i].tasks[u].section = FocusToday } }

AllKeys == UNION { KeysOn(i, FALSE) : i \in 1..Walked }

\* Calendar days from snapshot i + 1 to snapshot i (1: i is the day after).
DaysApart(i) == DayNumber(recentAgendas[i].date) - DayNumber(recentAgendas[i + 1].date)

ItemsFor(k) == { r \in Indices(results) : normalizeTaskText(results[r].task) = k }

\* Snapshots i, i+1, i+2 are three consecutive days, most recent first, and
\* all hold the key incomplete.
ThreeDayRun(i, k) ==
    /\ i + 2 <= Walked
    /\ DaysApart(i) = 1 /\ DaysApart(i + 1) = 1
    /\ \A j \in i..(i + 2) : k \in KeysOn(j, FALSE)

\* Snapshots i, i+1 are two consecutive days, most recent first, and both
\* hold the key incomplete under "Focus today".
TwoDayFocusRun(i, k) ==
    /\ i + 1 <= Walked
    /\ DaysApart(i) = 1
    /\ k \in KeysOn(i, TRUE) /\ k \in KeysOn(i + 1, TRUE)

OneItem(k, rule, days) ==
    /\ Cardinality(ItemsFor(k)) = 1
    /\ \A r \in ItemsFor(k) : results[r].rule = rule /\ results[r].days = days

\* C3 (as claimed).  For snapshots of three consecutive days, most recent
\* first, that all hold the same incomplete task in any section, the result
\* holds exactly one item for the task, with reason "Incomplete for 3
\* consecutive days".
C3_ThreeDaysAnySection ==
    Walked = 3 => \A k \in AllKeys : ThreeDayRun(1, k) => OneItem(k, "incomplete", 3)

\* C3 (amended).  For such snapshots the result holds exactly one item for
\* the task; its reason is "Incomplete for 3 consecutive days" unless the task
\* is under "Focus today" in both of the two most recent snapshots, and then
\* it is the Focus-today reason for 2 days.
C3_ThreeDays ==
    Walked = 3 =>
      \A k \in AllKeys :
        ThreeDayRun(1, k) =>
          IF TwoDayFocusRun(1, k)
          THEN OneItem(k, "focus", 2)
          ELSE OneItem(k, "incomplete", 3)

\* C3 witness: three consecutive days hold a task that is never under "Focus
\* today" on the two most recent days, and it was flagged by the 3-day rule.
C3_Witness ==
    /\ Walked = 3
    /\ \E k \in AllKeys :
          ThreeDayRun(1, k) /\ ~TwoDayFocusRun(1, k) /\ OneItem(k, "incomplete", 3)

C4_CarryStep ==
    (Walked >= 1 /\ Len(recentAgendas') = Walked + 1) =>
      LET carried == DayNumber(prevDate[1]) - DayNumber(prevDate'[1]) = 1
      IN /\ \A k \in DOMAIN streaks' :
              streaks'[k].count =
                IF carried /\ k \in DOMAIN streaks THEN streaks[k].count + 1 ELSE 1
         /\ \A k \in DOMAIN focusStreaks' :
              focusStreaks'[k].count =
                IF carried /\ k \in DOMAIN focusStreaks THEN focusStreaks[k].count + 1 ELSE 1

C5_GapResetsAll ==
    (Walked >= 2 /\ (DaysApart(Walked - 1) > 1 \/ DaysApart(Walked - 1) < -1)) =>
      /\ DOMAIN streaks = KeysOn(Walked, FALSE)
      /\ DOMAIN focusStreaks = KeysOn(Walked, TRUE)
      /\ \A k \in DOMAIN streaks : streaks[k].count = 1
      /\ \A k \in DOMAIN focusStreaks : focusStreaks[k].count = 1
      /\ Walked = 2 => results = <<>>

\* C5 witness: two tasks had streaks of two days (one of them also a Focus
\* streak), a gap of more than one day followed, and the snapshot after the
\* gap holds both tasks again with count 1.
C5_Witness ==
    /\ Walked = 3
    /\ DaysApart(1) = 1
    /\ DaysApart(2) > 1
    /\ \E k1, k2 \in KeysOn(3, FALSE) :
          /\ k1 # k2
          /\ {k1, k2} \subseteq KeysOn(1, FALSE) \cap KeysOn(2, FALSE)
          /\ k1 \in KeysOn(1, TRUE) \cap KeysOn(2, TRUE) \cap KeysOn(3, TRUE)
          /\ streaks[k1].count = 1 /\ streaks[k2].count = 1
          /\ focusStreaks[k1].count = 1

\* C6.  The result never holds two items whose task texts normalise to the
\* same key.
C6_FlaggedOnce ==
    \A r1, r2 \in Indices(results) :
        normalizeTaskText(results[r1].task) = normalizeTaskText(results[r2].task) => r1 = r2

\* C6 witness: a task flagged by the Focus-today rule qualifies a second time
\* after a date gap (a new two-day Focus streak), and has one item.
C6_Witness ==
    /\ Walked = 4
    /\ DaysApart(2) > 1
    /\ \E k \in AllKeys :
          /\ TwoDayFocusRun(1, k) /\ TwoDayFocusRun(3, k)
          /\ focusStreaks[k].count = 2
          /\ Cardinality(ItemsFor(k)) = 1

\* C7.  A task that is incomplete under "Focus today" in the snapshots of two
\* consecutive days, and is in no run of three consecutive days, yields
\* exactly one item, by the Focus-today rule with 2 days.
C7_TwoDayFocus ==
    \A k \in AllKeys :
        ( /\ \E i \in 1..Walked : TwoDayFocusRun(i, k)
          /\ \A i \in 1..Walked : ~ThreeDayRun(i, k) )
        => OneItem(k, "focus", 2)

\* C7 witness: the task is under "Focus today" on two consecutive days,
\* complete on the day before them, and flagged by the Focus-today rule.
C7_Witness ==
    /\ Walked = 3
    /\ DaysApart(1) = 1 /\ DaysApart(2) = 1
    /\ \E k \in AllKeys :
          /\ TwoDayFocusRun(1, k)
          /\ k \notin KeysOn(3, FALSE)
          /\ OneItem(k, "focus", 2)

----------------------------------------------------------------------------
(* renderAgendaToMarkdown and parseMarkdownToAgenda                        *)
(* (src/src/utils/markdown-utils.ts, and the second copy of the parser in  *)
(* src/src/utils/cursor-deeplink.ts)                                       *)

NL == <<"\n">>

\* Characters the regular-expression `.` does not match.  (U+2028 and U+2029
\* are line terminators as well; the alphabet of the model leaves them out.)
LineTerminators == {"\n", "\r"}

\* getTodayDate(): a YYYY-MM-DD string.
Today == <<"2","0","2","4","-","0","2","-","2","9">>

\* `# Daily Focus - ${dateStr}\n\n` (line 60; "EM DASH" stands for U+2014).
Title(dateStr) ==
    <<"#"," ","D","a","i","l","y"," ","F","o","c","u","s"," ","EM DASH"," ">>
        \o dateStr \o NL \o NL

\* for (const task of bucket) markdown += `- [ ] ${task}\n`
RECURSIVE RenderTasks(_)
RenderTasks(tasks) ==
    IF tasks = <<>> THEN <<>>
    ELSE <<"-"," ","["," ","]"," ">> \o Head(tasks) \o NL \o RenderTasks(Tail(tasks))

\* One section: heading, tasks, a blank line if there are none, a blank line.
RenderSection(title, tasks) ==
    <<"#","#"," ">> \o title \o NL
        \o RenderTasks(tasks)
        \o (IF Len(tasks) = 0 THEN NL ELSE <<>>)
        \o NL

\* renderAgendaToMarkdown(draft, date), lines 58-93.
renderAgendaToMarkdown(d, dateStr) ==
    Title(dateStr)
        \o RenderSection(FocusToday, d.focusToday)
        \o RenderSection(QuickWins, d.quickWins)
        \o RenderSection(Later, d.later)

\* String.prototype.split("\n"): the pieces between the separators, n + 1
\* pieces for n separators (a string ending in "\n" has a last piece "").
split(s) ==
    LET breaks == { i \in 1..Len(s) : s[i] = "\n" }
        n == Cardinality(breaks)
        BreakAt(k) ==
            IF k = 0 THEN 0
            ELSE IF k = n + 1 THEN Len(s) + 1
            ELSE CHOOSE i \in breaks : Cardinality({ j \in breaks : j < i }) = k - 1
    IN  [k \in 1..(n + 1) |-> SubSeq(s, BreakAt(k - 1) + 1, BreakAt(k) - 1)]

\* The switch on sectionName, lines 166-179; the default case gives null.
SectionOf_LaterIntoQuickWins(sectionName) ==
    IF sectionName = FocusToday THEN "focusToday"
    ELSE IF sectionName = QuickWins THEN "quickWins"
    ELSE IF sectionName = Later THEN "quickWins"
    ELSE "null"

SectionOf(sectionName) ==
    IF sectionName = FocusToday THEN "focusToday"
    ELSE IF sectionName = QuickWins THEN "quickWins"
    ELSE IF sectionName = Later THEN "later"
    ELSE "null"

\* line.match(/^-\s*\[([ xX])\]\s*(.+)$/): <<>> for null, else the captures.
\* The second \s* is greedy and gives characters back until (.+)$ can match:
\* at least one character up to the end of the line, none a line terminator.
TaskMatch(line) ==
    IF line = <<>> \/ Head(line) # "-" THEN <<>>
    ELSE LET box == TrimStart(Tail(line))
         IN  IF \/ Len(box) < 3
                \/ box[1] # "["
                \/ box[2] \notin {" ", "x", "X"}
                \/ box[3] # "]"
             THEN <<>>
             ELSE LET rest == SubSeq(box, 4, Len(box))
                      lead == Len(rest) - Len(TrimStart(rest))
                      starts == { p \in 0..lead :
                                    /\ p < Len(rest)
                                    /\ \A i \in (p + 1)..Len(rest) :
                                          rest[i] \notin LineTerminators }
                  IN  IF starts = {} THEN <<>>
                      ELSE LET p == CHOOSE q \in starts : \A r \in starts : r <= q
                           IN  << [checkbox |-> box[2],
                                   text |-> SubSeq(rest, p + 1, Len(rest))] >>

\* The two copies of parseMarkdownToAgenda differ in one test: the one in
\* markdown-utils.ts pushes the text of every checkbox line (lines 190-194),
\* the one in cursor-deeplink.ts only if the box is not checked (lines 358-366).
ParserVersions == {"markdown-utils", "cursor-deeplink"}

Collects(version, checkbox) ==
    IF version = "markdown-utils" THEN TRUE ELSE LowerChar(checkbox) # "x"

\* The state of the scan before the first line.
ScanStart == [currentSection |-> "null", agenda |-> EmptyAgenda, stopped |-> FALSE]

\* One iteration of `for (const line of lines)`, lines 162-196.
ScanStep(st, line, version) ==
    IF st.stopped THEN st
    ELSE IF startsWith(line, <<"#","#"," ">>)
    THEN [st EXCEPT !.currentSection = SectionOf(trim(SubSeq(line, 4, Len(line))))]
    ELSE IF trim(line) = <<"-","-","-">>
    THEN [st EXCEPT !.stopped = TRUE]
    ELSE IF st.currentSection # "null"
    THEN LET taskMatch == TaskMatch(line)
         IN  IF taskMatch # <<>> /\ Collects(version, taskMatch[1].checkbox)
             THEN [st EXCEPT !.agenda[st.currentSection] =
                                  Append(@, trim(taskMatch[1].text))]
             ELSE st
    ELSE st

RECURSIVE ScanLines(_, _, _)
ScanLines(st, ls, version) ==
    IF ls = <<>> THEN st
    ELSE ScanLines(ScanStep(st, Head(ls), version), Tail(ls), version)

\* parseMarkdownToAgenda(markdown), lines 152-199.
parseMarkdownToAgenda(md, version) ==
    ScanLines(ScanStart, split(md), version).agenda

(* SpecParse: the scan of a note, one line per step *)

MaxLines == 4

HeadingFocus == <<"#","#"," ">> \o FocusToday
HeadingQuick == <<"#","#"," ">> \o QuickWins
HeadingLaterPadded == <<"#","#"," "," ">> \o Later \o <<" ">>
HeadingNotes == <<"#","#"," ","N","o","t","e","s">>
RuleLine == <<"-","-","-">>
OpenTaskLine == <<"-"," ","["," ","]"," ","a">>
DoneTaskLine == <<"-"," ","[","x","]"," ","b">>
TightTaskLine == <<"-","[","X","]","c"," ">>
TextLine == <<"a">>

\* Lines of a daily note as the user may have edited it.
LinePool == { HeadingFocus, HeadingQuick, HeadingLaterPadded, HeadingNotes,
              RuleLine, OpenTaskLine, DoneTaskLine, TightTaskLine, TextLine }

InitParse ==
    /\ parserVersion \in ParserVersions
    /\ lines = <<>>
    /\ currentSection = ScanStart.currentSection
    /\ agenda = ScanStart.agenda
    /\ stopped = ScanStart.stopped
    /\ GatherIdle /\ UnclearIdle /\ RoundTripIdle /\ MergeIdle /\ DedupeIdle /\ TaskIdle /\ ScheduleIdle /\ GenerateIdle

\* The loop body on the next line of the note.
ScanLine(line) ==
    /\ ~stopped
    /\ Len(lines) < MaxLines
    /\ \E st \in { ScanStep([currentSection |-> currentSection, agenda |-> agenda,
                             stopped |-> stopped], line, parserVersion) } :
          /\ currentSection' = st.currentSection
          /\ agenda' = st.agenda
          /\ stopped' = st.stopped
    /\ lines' = Append(lines, line)
    /\ UNCHANGED <<parserVersion, gatherVars, unclearVars, roundTripVars, mergeVars, dedupeVars, taskVars, scheduleVars, generateVars>>

NextParse == \E line \in LinePool : ScanLine(line)

SpecParse == InitParse /\ [][NextParse]_vars

(* SpecRoundTrip: render a draft, then parse what was rendered *)

MaxEntries == 2

EntryA == <<"a">>
EntryBC == <<"b"," ","c">>
EntryLeading == <<" ","a">>
EntryTrailing == <<"a"," ">>
EntryTwoLines == <<"a","\n","b">>
EntryCarriageReturn == <<"a","\r","b">>
EntryEmpty == <<>>
EntryRule == <<"-","-","-">>
EntryHeading == <<"#","#"," ","a">>

\* Entry texts a draft can hold: the entries come from the model's reply and
\* from the user's answers, so any string can occur.
EntryPool == { EntryA, EntryBC, EntryLeading, EntryTrailing, EntryTwoLines,
               EntryCarriageReturn, EntryEmpty, EntryRule, EntryHeading }

\* DraftAgendas with at most MaxEntries entries in all.
Drafts ==
    { [focusToday |-> SubSeq(es, 1, i),
       quickWins |-> SubSeq(es, i + 1, j),
       later |-> SubSeq(es, j + 1, Len(es))] :
        <<es, i, j>> \in
            { t \in (UNION { [1..n -> EntryPool] : n \in 0..MaxEntries })
                      \X (0..MaxEntries) \X (0..MaxEntries) :
                  t[2] <= t[3] /\ t[3] <= Len(t[1]) } }

InitRoundTrip ==
    /\ parserVersion \in ParserVersions
    /\ lines = <<>> /\ currentSection = "null"
    /\ agenda = EmptyAgenda /\ stopped = FALSE
    /\ draft \in Drafts
    /\ markdown = <<>>
    /\ parsed = <<>>
    /\ GatherIdle /\ UnclearIdle /\ MergeIdle /\ DedupeIdle /\ TaskIdle /\ ScheduleIdle /\ GenerateIdle

\* const finalContent = renderAgendaToMarkdown(finalDraft)
Render ==
    /\ markdown = <<>>
    /\ markdown' = renderAgendaToMarkdown(draft, Today)
    /\ UNCHANGED <<draft, parsed, parseVars, gatherVars, unclearVars, mergeVars, dedupeVars, taskVars, scheduleVars, generateVars>>

\* const currentAgenda = parseMarkdownToAgenda(content)
Parse ==
    /\ markdown # <<>>
    /\ parsed = <<>>
    /\ parsed' = << parseMarkdownToAgenda(markdown, parserVersion) >>
    /\ UNCHANGED <<draft, markdown, parseVars, gatherVars, unclearVars, mergeVars, dedupeVars, taskVars, scheduleVars, generateVars>>

NextRoundTrip == Render \/ Parse

SpecRoundTrip == InitRoundTrip /\ [][NextRoundTrip]_vars

----------------------------------------------------------------------------
(* Claims about the round trip and the parser                              *)

RECURSIVE Contains(_, _)
Contains(s, part) ==
    IF Len(s) < Len(part) THEN FALSE
    ELSE startsWith(s, part) \/ Contains(Tail(s), part)

EntriesOf(d) ==
    { d.focusToday[i] : i \in 1..Len(d.focusToday) }
        \cup { d.quickWins[i] : i \in 1..Len(d.quickWins) }
        \cup { d.later[i] : i \in 1..Len(d.later) }

NoRuleNoHeading(e) ==
    ~Contains(e, <<"-","-","-">>) /\ ~Contains(e, <<"#","#"," ">>)

TrimmedOneLine(e) ==
    trim(e) = e /\ \A i \in 1..Len(e) : e[i] \notin LineTerminators

\* C9 (as claimed).  For every draft whose entries contain no `---` and no
\* heading prefix, parsing the rendered draft gives the draft back.
C9_RoundTripAlways ==
    (parsed # <<>> /\ \A e \in EntriesOf(draft) : NoRuleNoHeading(e))
        => parsed[1] = draft

\* C9 (amended).  For every draft whose entries have no leading or trailing whitespace
\* and no line terminator inside, parsing the rendered draft gives the draft
\* back: the same entries, in the same order, in the same three buckets (with
\* either copy of the parser; entries holding `---` or `## ` included).
C9_RoundTrip ==
    (parsed # <<>> /\ \A e \in EntriesOf(draft) : TrimmedOneLine(e))
        => parsed[1] = draft

\* C9 witness: a draft of trimmed one-line entries in two different buckets
\* was rendered and parsed back unchanged.
C9_Witness ==
    /\ parsed # <<>>
    /\ \A e \in EntriesOf(draft) : TrimmedOneLine(e)
    /\ draft.focusToday # <<>>
    /\ draft.later # <<>>
    /\ draft.focusToday # draft.later
    /\ parsed[1] = draft

\* A `## ` heading whose title is none of the three canonical titles.
IsOtherHeading(line) ==
    /\ startsWith(line, <<"#","#"," ">>)
    /\ trim(SubSeq(line, 4, Len(line))) \notin {FocusToday, QuickWins, Later}

MetOtherHeading == \E i \in 1..Len(lines) : IsOtherHeading(lines[i])

\* C10 (as claimed).  Once the scan has met a `## ` heading with a non-canonical title, no
\* later line adds an entry to any bucket, also when a canonical heading
\* follows.
C10_ClosedAfterOtherHeading ==
    [][MetOtherHeading => agenda' = agenda]_vars

\* A checkbox line whose box is checked, `- [x]` or `- [X]`.
IsCheckedLine(line) ==
    /\ TaskMatch(line) # <<>>
    /\ TaskMatch(line)[1].checkbox \in {"x", "X"}

\* C11 (as claimed).  Scanning a checked checkbox line never adds an entry
\* to any bucket, whichever copy of the parser runs.
C11_CheckedNeverCollected ==
    [][(lines' # lines /\ IsCheckedLine(lines'[Len(lines')])) => agenda' = agenda]_vars

----------------------------------------------------------------------------
(* mergeDraftWithResolutions (src/src/utils/markdown-utils.ts lines 9-53;  *)
(* the copy in cursor-deeplink.ts lines 58-102 is the same text)           *)

includes_WholeText(s, part) == s = part

\* String.prototype.includes
includes(s, part) ==
    \E i \in 0..(Len(s) - Len(part)) : SubSeq(s, i + 1, i + Len(part)) = part

FilterBucket_KeepAll(bucket, taskLower) == bucket

\* merged[key].filter(t => !t.toLowerCase().includes(taskLower)), line 24.
FilterBucket(bucket, taskLower) ==
    SelectSeq(bucket, LAMBDA t : ~includes(toLowerCase(t), taskLower))

FormatTask_NoContext(resolved) == resolved.task

\* Lines 33-36: the task, with " - context" when the context is not empty
\* ("EM DASH" stands for U+2014).
FormatTask(resolved) ==
    IF resolved.context # <<>>
    THEN resolved.task \o <<" ", "EM DASH", " ">> \o resolved.context
    ELSE resolved.task

\* The body of `for (const resolved of resolvedItems)`, lines 20-50.
MergeStep(m, resolved) ==
    LET taskLower == toLowerCase(resolved.task)
        removed == [focusToday |-> FilterBucket(m.focusToday, taskLower),
                    quickWins |-> FilterBucket(m.quickWins, taskLower),
                    later |-> FilterBucket(m.later, taskLower)]
    IN  IF resolved.resolution \in {"done", "drop"} THEN removed
        ELSE IF resolved.resolution = "focus_today"
        THEN [removed EXCEPT !.focusToday = Append(@, FormatTask(resolved))]
        ELSE IF resolved.resolution = "quick_win"
        THEN [removed EXCEPT !.quickWins = Append(@, FormatTask(resolved))]
        ELSE IF resolved.resolution = "later"
        THEN [removed EXCEPT !.later = Append(@, FormatTask(resolved))]
        ELSE removed

RECURSIVE MergeItems(_, _)
MergeItems(m, items) ==
    IF items = <<>> THEN m ELSE MergeItems(MergeStep(m, Head(items)), Tail(items))

\* mergeDraftWithResolutions(draft, resolvedItems), lines 9-53.
mergeDraftWithResolutions(d, items) == MergeItems(d, items)

MaxResolutions == 2

TaskAb == <<"a","b">>
TaskAbLong == <<"A","b"," ","c">>
TaskCd == <<"c","d">>
ContextX == <<"x">>

DraftOf(f, q, l) == [focusToday |-> f, quickWins |-> q, later |-> l]

\* Drafts the triage step can hand over; nothing keeps a text out of two
\* buckets, so the last one repeats a text.
TriageDrafts ==
    { DraftOf(<<>>, <<>>, <<>>),
      DraftOf(<<TaskAb>>, <<>>, <<>>),
      DraftOf(<<TaskAbLong>>, <<TaskAb>>, <<TaskCd>>),
      DraftOf(<<>>, <<TaskCd>>, <<TaskAbLong>>),
      DraftOf(<<TaskAb, TaskCd>>, <<>>, <<TaskAbLong>>),
      DraftOf(<<TaskAb>>, <<>>, <<TaskAb>>) }

\* ResolvedItems as StatusUpdateModal builds them: the task of an unclear
\* item, one of the five resolutions, the answer (possibly empty) as context.
ResolvedPool ==
    { [task |-> t, resolution |-> r, context |-> c] :
        t \in {TaskAb, TaskCd},
        r \in {"done", "drop", "focus_today", "quick_win", "later"},
        c \in {<<>>, ContextX} }

InitMerge ==
    /\ triageDraft \in TriageDrafts
    /\ resolvedItems = <<>>
    /\ merged = triageDraft
    /\ GatherIdle /\ UnclearIdle /\ ParseIdle /\ RoundTripIdle /\ DedupeIdle /\ TaskIdle /\ ScheduleIdle /\ GenerateIdle

\* One iteration of the loop over resolvedItems.
Resolve(resolved) ==
    /\ Len(resolvedItems) < MaxResolutions
    /\ merged' = MergeStep(merged, resolved)
    /\ resolvedItems' = Append(resolvedItems, resolved)
    /\ UNCHANGED <<triageDraft, gatherVars, unclearVars, parseVars, roundTripVars, dedupeVars, taskVars, scheduleVars, generateVars>>

NextMerge == \E resolved \in ResolvedPool : Resolve(resolved)

SpecMerge == InitMerge /\ [][NextMerge]_vars

----------------------------------------------------------------------------
(* Claims about mergeDraftWithResolutions                                  *)

BucketNames == {"focusToday", "quickWins", "later"}

\* The positions <<bucket, index>> of a draft whose entry contains the text,
\* ignoring case.
PositionsHolding(d, text) ==
    { pos \in BucketNames \X (1..(Len(d.focusToday) + Len(d.quickWins) + Len(d.later))) :
        /\ pos[2] <= Len(d[pos[1]])
        /\ Contains(toLowerCase(d[pos[1]][pos[2]]), toLowerCase(text)) }

LastResolved == resolvedItems[Len(resolvedItems)]

BucketFor(resolution) ==
    IF resolution = "focus_today" THEN "focusToday"
    ELSE IF resolution = "quick_win" THEN "quickWins"
    ELSE "later"

\* What the last step took out: the entries of the buckets before the step
\* that do not contain the resolved text, in their order.
KeptOf(bucket, text) ==
    SelectSeq(bucket, LAMBDA t : ~Contains(toLowerCase(t), toLowerCase(text)))

\* C12, first part.  A step keeps in each bucket exactly the earlier entries
\* that do not contain the resolved task text (ignoring case), in their
\* order: every containing entry is removed from all three buckets; for a
\* resolution done or drop nothing is reinserted.
C12_StepRemoves ==
    resolvedItems' # resolvedItems
    => LET resolved == resolvedItems'[Len(resolvedItems')]
       IN  \A b \in BucketNames :
              LET kept == KeptOf(merged[b], resolved.task)
              IN  /\ SubSeq(merged'[b], 1, Len(kept)) = kept
                  /\ Len(merged'[b]) <= Len(kept) + 1
                  /\ resolved.resolution \in {"done", "drop"} => merged'[b] = kept

\* C12, second part.  After a merge whose resolutions are all done or drop,
\* no bucket holds an entry containing any resolved task text.
C12_NoneLeft ==
    (\A i \in 1..Len(resolvedItems) : resolvedItems[i].resolution \in {"done", "drop"})
    => \A i \in 1..Len(resolvedItems) :
          PositionsHolding(merged, resolvedItems[i].task) = {}

\* C12.  Both parts: what each done/drop step does and what holds at the end.
C12_DoneDropRemoves ==
    [][C12_StepRemoves /\ C12_NoneLeft']_vars

\* C12 witness: resolving "ab" as done took the longer entry "Ab c" out of a
\* bucket as well.
C12_Witness ==
    /\ Len(resolvedItems) = 1
    /\ resolvedItems[1].task = TaskAb
    /\ resolvedItems[1].resolution = "done"
    /\ \E b \in BucketNames : \E i \in 1..Len(triageDraft[b]) : triageDraft[b][i] = TaskAbLong
    /\ \E b \in BucketNames : \E i \in 1..Len(triageDraft[b]) : triageDraft[b][i] = TaskCd
    /\ PositionsHolding(merged, TaskAb) = {}
    /\ PositionsHolding(merged, TaskCd) # {}

\* The entry a resolution puts back: the task, with " - " and the context
\* after it when the context is not empty.
Reinserted(resolved) ==
    IF Len(resolved.context) > 0
    THEN resolved.task \o <<" ", "EM DASH", " ">> \o resolved.context
    ELSE resolved.task

\* C13.  A step for a resolution focus_today, quick_win or later appends the
\* task text (with the context suffix if there is a context) as the last
\* entry of focusToday, quickWins or later respectively and appends nothing
\* to the other buckets; right after the step exactly one position of the
\* three buckets holds the task, that last one.
C13_StepAppends ==
    (resolvedItems' # resolvedItems
        /\ resolvedItems'[Len(resolvedItems')].resolution
              \in {"focus_today", "quick_win", "later"})
    => LET resolved == resolvedItems'[Len(resolvedItems')]
           target == BucketFor(resolved.resolution)
       IN  /\ merged'[target] =
                 Append(KeptOf(merged[target], resolved.task), Reinserted(resolved))
           /\ \A b \in BucketNames \ {target} :
                 merged'[b] = KeptOf(merged[b], resolved.task)
           /\ PositionsHolding(merged', resolved.task)
                 = { <<target, Len(merged'[target])>> }

C13_AppendedOnce == [][C13_StepAppends]_vars

\* C13 witness: "ab", in focusToday and (as "Ab c") in later before, was
\* resolved as quick_win with a context and is now the last quick win.
C13_Witness ==
    /\ Len(resolvedItems) = 1
    /\ resolvedItems[1] = [task |-> TaskAb, resolution |-> "quick_win", context |-> ContextX]
    /\ triageDraft = DraftOf(<<TaskAb, TaskCd>>, <<>>, <<TaskAbLong>>)
    /\ merged = DraftOf(<<TaskCd>>, <<TaskAb \o <<" ", "EM DASH", " ">> \o ContextX>>, <<>>)

----------------------------------------------------------------------------
(* SpecAgendas: the two functions that return a DraftAgenda, one per run   *)

InitAgendas == InitParse \/ InitMerge

\* A run is either a scan (no resolution is processed) or a merge (no line
\* is scanned).
NextAgendas ==
    \/ (resolvedItems = <<>> /\ merged = EmptyAgenda /\ NextParse)
    \/ (lines = <<>> /\ NextMerge)

SpecAgendas == InitAgendas /\ [][NextAgendas]_vars

\* No text occurs in more than one bucket.
Disjoint(d) ==
    LET texts(b) == { d[b][i] : i \in 1..Len(d[b]) }
    IN  \A b1, b2 \in BucketNames : b1 # b2 => texts(b1) \cap texts(b2) = {}

\* C14 (as claimed).  The agenda the parser returns has disjoint buckets, and
\* so has the merged draft when the input draft has.
C14_DisjointByConstruction ==
    /\ Disjoint(agenda)
    /\ Disjoint(triageDraft) => Disjoint(merged)

\* C14 (amended).  mergeDraftWithResolutions keeps the buckets disjoint: when
\* no text occurs in two buckets of the input draft, none does in the merged
\* draft after any number of resolutions.  (The parser gives no such
\* guarantee: see C14_DisjointByConstruction.)
C14_MergeKeepsDisjoint ==
    Disjoint(triageDraft) => Disjoint(merged)

\* C14 witness: a resolved task was moved from one bucket of a disjoint draft
\* to another bucket that still holds other entries.
C14_Witness ==
    /\ Len(resolvedItems) = 1
    /\ resolvedItems[1].task = TaskAb
    /\ resolvedItems[1].resolution = "later"
    /\ triageDraft = DraftOf(<<TaskAb, TaskCd>>, <<>>, <<TaskAbLong>>)
    /\ Disjoint(triageDraft)
    /\ Len(merged.later) = 1 /\ Len(merged.focusToday) = 1
    /\ Disjoint(merged)

----------------------------------------------------------------------------
(* Claims about the warnings of reconcile                                  *)

\* The pairs <<i, j>> reconcile matches: PR i references ticket j, and j is
\* the ticket the lookup map returns for that key (the last one in the list
\* among tickets whose keys are equal ignoring case).
MatchedPairs ==
    { pair \in Indices(pullRequests) \X Indices(jiraTickets) :
        /\ References(pullRequests[pair[1]], jiraTickets[pair[2]])
        /\ \A j2 \in Indices(jiraTickets) :
              References(pullRequests[pair[1]], jiraTickets[j2]) => j2 <= pair[2] }

\* How many warnings of that type and message name this PR and this ticket.
WarningsFor(pr, ticket, type, message) ==
    Cardinality({ w \in Indices(Result.warnings) :
                    /\ Result.warnings[w].type = type
                    /\ Result.warnings[w].message = message
                    /\ Result.warnings[w].prNumber = pr.number
                    /\ Result.warnings[w].jiraKey = ticket.key })

OneIf(condition) == IF condition THEN 1 ELSE 0

\* C15.  For every matched PR/ticket pair the three checks are made
\* independently: needs_approval exactly when the ticket is "In Review" and
\* the PR is not approved; status_mismatch (move the ticket) exactly when the
\* PR is approved and the ticket is "In Progress"; status_mismatch (failing
\* checks) exactly when hilChecksPassing is false, not when it is null or
\* true.  Every discrepancy warning belongs to a matched pair.
C15_DiscrepancyChecks ==
    Reconciled =>
      /\ \A pair \in MatchedPairs :
            LET pr == pullRequests[pair[1]]
                ticket == jiraTickets[pair[2]]
            IN  /\ WarningsFor(pr, ticket, "needs_approval", "needs approval")
                      = OneIf(ticket.status = "In Review" /\ ~pr.hasApproval)
                /\ WarningsFor(pr, ticket, "status_mismatch", "approved but still In Progress")
                      = OneIf(pr.hasApproval /\ ticket.status = "In Progress")
                /\ WarningsFor(pr, ticket, "status_mismatch", "failing HIL checks")
                      = OneIf(pr.hilChecksPassing = "false")
      /\ \A w \in Indices(Result.warnings) :
            Result.warnings[w].type \in {"needs_approval", "status_mismatch"}
            => \E pair \in MatchedPairs :
                  /\ Result.warnings[w].prNumber = pullRequests[pair[1]].number
                  /\ Result.warnings[w].jiraKey = jiraTickets[pair[2]].key

\* C15 witness: an approved PR with failing checks and a PR with pending
\* checks were matched to the same "In Progress" ticket; the first got both
\* status_mismatch warnings, the second none.
C15_Witness ==
    /\ Reconciled
    /\ pullRequests = << PR(3, FSW12, TRUE, "false"), PR(1, FSW12, FALSE, "null") >>
    /\ Len(jiraTickets) = 1
    /\ jiraTickets[1].key = FSW12 /\ jiraTickets[1].status = "In Progress"
    /\ Len(Result.warnings) = 2
    /\ \A w \in 1..2 : /\ Result.warnings[w].type = "status_mismatch"
                       /\ Result.warnings[w].prNumber = 3

\* The pr_no_ticket warnings that carry this PR's number.
NoTicketWarnings(pr) ==
    { w \in Indices(Result.warnings) :
        /\ Result.warnings[w].type = "pr_no_ticket"
        /\ Result.warnings[w].prNumber = pr.number }

\* C16.  A PR is in unmatchedPRs exactly when it has no jiraId or its jiraId
\* equals no ticket key (ignoring case); such a PR has exactly one
\* pr_no_ticket warning, carrying its number and its jiraId (none when it has
\* none); a matched PR has no pr_no_ticket warning; there are as many
\* pr_no_ticket warnings as unmatched PRs.
C16_PRNoTicket ==
    Reconciled =>
      /\ \A i \in Indices(pullRequests) :
            LET pr == pullRequests[i]
                unmatched == \A j \in Indices(jiraTickets) : ~References(pr, jiraTickets[j])
            IN  /\ unmatched <=> Count(Result.unmatchedPRs, pr) = 1
                /\ ~unmatched <=> Count(Result.matchedPRs, pr) = 1
                /\ Count(Result.unmatchedPRs, pr) + Count(Result.matchedPRs, pr) = 1
                /\ Cardinality(NoTicketWarnings(pr)) = OneIf(unmatched)
                /\ \A w \in NoTicketWarnings(pr) : Result.warnings[w].jiraKey = pr.jiraId
      /\ Cardinality({ w \in Indices(Result.warnings) :
                          Result.warnings[w].type = "pr_no_ticket" })
            = Len(Result.unmatchedPRs)

\* C16 witness: a PR without jiraId and a PR whose jiraId is no ticket's key
\* were reconciled against a non-empty ticket list; each has its warning.
C16_Witness ==
    /\ Reconciled
    /\ Len(jiraTickets) = 2
    /\ pullRequests = << PR(5, <<>>, FALSE, "true"), PR(6, FSW99, TRUE, "null") >>
    /\ Len(Result.unmatchedPRs) = 2
    /\ Cardinality(NoTicketWarnings(pullRequests[1])) = 1
    /\ Cardinality(NoTicketWarnings(pullRequests[2])) = 1

----------------------------------------------------------------------------
(* Claims about gatherEnhancedContext                                      *)

\* What holds in every state: a fetch that failed or was never started has
\* left its list empty, and the reconciliation is that of the two lists.
C17_Lists ==
    /\ githubFetch \in {"disabled", "rejected"} => pullRequests = <<>>
    /\ jiraFetch = "disabled" => jiraTickets = <<>>
    /\ Reconciled => Result = reconcile(pullRequests, jiraTickets)

\* What every step does: reconcile runs only when no fetch is pending; the
\* settling of one fetch touches neither the other fetch nor its list, so
\* the lists handed to reconcile do not depend on which fetch settles first;
\* after reconcile the lists are not written again.
C17_Step ==
    /\ reconciliation' # reconciliation
          => githubFetch # "pending" /\ jiraFetch # "pending"
    /\ githubFetch' # githubFetch
          => /\ jiraFetch' = jiraFetch /\ jiraTickets' = jiraTickets
             /\ ~Reconciled
    /\ jiraFetch' # jiraFetch
          => /\ githubFetch' = githubFetch /\ pullRequests' = pullRequests
             /\ ~Reconciled

\* C17.  gatherEnhancedContext calls reconcile only after both fetches have
\* settled; a failed or disabled fetch contributes an empty list and does not
\* stop the run; the reconciliation is the one of the two fetched lists,
\* whichever fetch settles first.
C17_ReconcileAfterBothSettled ==
    []C17_Lists /\ [][C17_Step]_vars

\* C17 witness: the PR fetch failed, the ticket fetch returned tickets, and
\* reconcile ran on the empty PR list and those tickets.
C17_Witness ==
    /\ Reconciled
    /\ githubFetch = "rejected" /\ jiraFetch = "resolved"
    /\ pullRequests = <<>> /\ Len(jiraTickets) = 2
    /\ Len(Result.unmatchedTickets) = 2

----------------------------------------------------------------------------
(* generateDailyFocus: the deterministic unclear items are merged into the *)
(* LLM's (src/src/main.ts lines 618-631)                                   *)

UnclearKey_RawTask(item) == item.task

\* this.normalizeTaskText(u.task), lines 622 and 625.
UnclearKey(item) == normalizeTaskText(item.task)

MaxDeterministic == 3

Ship == <<"S","h","i","p">>

UnclearItem(task, reason) == [task |-> task, reason |-> reason]

\* Unclear-item lists an LLM reply can hold: any texts, repeated or not.
LlmUnclearLists ==
    { <<>>,
      << UnclearItem(<<" ">> \o DoIt, "llm") >>,
      << UnclearItem(doIt2, "llm"), UnclearItem(Fix, "llm") >>,
      << UnclearItem(DoIt, "llm"), UnclearItem(doIt2, "llm") >> }

\* Items detectUnclearItems can return.
DeterministicPool ==
    { UnclearItem(t, r) : t \in {DoIt, doIt2, Fix, Ship}, r \in {"incomplete", "focus"} }

\* Line 621-623: the keys of the LLM's items.
KeysOf(items) == { UnclearKey(items[i]) : i \in 1..Len(items) }

InitDedupe ==
    /\ llmUnclear \in LlmUnclearLists
    /\ offered = <<>>
    /\ unclearItems = llmUnclear
    /\ existing = KeysOf(llmUnclear)
    /\ GatherIdle /\ UnclearIdle /\ ParseIdle /\ RoundTripIdle /\ MergeIdle /\ TaskIdle /\ ScheduleIdle /\ GenerateIdle

\* detectUnclearItems returns at most one item per normalised task text.
SuppliedOncePerKey(item) ==
    \A i \in 1..Len(offered) : normalizeTaskText(offered[i].task) # normalizeTaskText(item.task)

\* One iteration of `for (const item of deterministicUnclear)`, lines 624-630.
OfferItem(item) ==
    /\ Len(offered) < MaxDeterministic
    /\ SuppliedOncePerKey(item)
    /\ offered' = Append(offered, item)
    /\ IF UnclearKey(item) \notin existing
       THEN /\ unclearItems' = Append(unclearItems, item)
            /\ existing' = existing \cup {UnclearKey(item)}
       ELSE UNCHANGED <<unclearItems, existing>>
    /\ UNCHANGED <<llmUnclear, gatherVars, unclearVars, parseVars, roundTripVars, mergeVars, taskVars, scheduleVars, generateVars>>

NextDedupe == \E item \in DeterministicPool : OfferItem(item)

SpecDedupe == InitDedupe /\ [][NextDedupe]_vars

\* The items appended after the LLM's.
Appended == SubSeq(unclearItems, Len(llmUnclear) + 1, Len(unclearItems))

\* Some item of the list has the same normalised task text.
HasSameText(items, item) ==
    \E i \in 1..Len(items) :
        normalizeTaskText(items[i].task) = normalizeTaskText(item.task)

\* C18.  Every LLM item stays where it was; a deterministic item is appended
\* (at the end) if no item already in the list has its normalised task text,
\* and left out otherwise; no two appended items share a normalised text.
C18_Step ==
    offered' # offered
    => unclearItems' =
          IF HasSameText(unclearItems, offered'[Len(offered')])
          THEN unclearItems
          ELSE Append(unclearItems, offered'[Len(offered')])

C18_List ==
    /\ Len(unclearItems) >= Len(llmUnclear)
    /\ SubSeq(unclearItems, 1, Len(llmUnclear)) = llmUnclear
    /\ \A i, j \in 1..Len(Appended) :
          normalizeTaskText(Appended[i].task) = normalizeTaskText(Appended[j].task) => i = j
    /\ \A i \in 1..Len(Appended) : ~HasSameText(llmUnclear, Appended[i])

C18_DedupedAppend ==
    []C18_List /\ [][C18_Step]_vars

\* C18 witness: the LLM named "Do it"; the deterministic "do  it" was left
\* out, "Fix" and "Ship" were appended behind the LLM's item.
C18_Witness ==
    /\ llmUnclear = << UnclearItem(<<" ">> \o DoIt, "llm") >>
    /\ Len(offered) = 3
    /\ \E i \in 1..3 : offered[i].task = doIt2
    /\ Len(unclearItems) = 3
    /\ unclearItems[1] = llmUnclear[1]
    /\ {unclearItems[2].task, unclearItems[3].task} = {Fix, Ship}

----------------------------------------------------------------------------
(* renderStatusTables (src/src/utils/markdown-utils.ts lines 98-146) and   *)
(* the save path of generateDailyFocus (src/src/main.ts lines 679-711).    *)
(* Words and field values that hold no line break are written as one       *)
(* element of the character sequence.                                      *)

\* Replaces the tables by an agenda section, with no rule line before it.
renderStatusTables_AgendaSection(prs, tickets, r) ==
    <<"#","#"," ">> \o Later \o NL \o <<"-"," ","["," ","]"," ","x">> \o NL

RECURSIVE PRRows(_)
PRRows(prs) ==
    IF prs = <<>> THEN <<>>
    ELSE LET pr == Head(prs)
             hilStatus == IF pr.hilChecksPassing = "null" THEN "EM DASH"
                          ELSE IF pr.hilChecksPassing = "true" THEN "Passing"
                          ELSE "Failing"
             approvalStatus == IF pr.hasApproval THEN "Yes" ELSE "No"
             jiraTag == IF pr.jiraId # <<>> THEN <<"[">> \o pr.jiraId \o <<"]">> ELSE <<>>
         IN  <<"|"," ","[","#">> \o <<ToString(pr.number)>> \o <<"]","(","pr.url",")"," ","|"," ">>
                 \o jiraTag \o <<" ","pr.title"," ","|"," ",hilStatus," ","|"," ",approvalStatus," ","|">>
                 \o NL \o PRRows(Tail(prs))

RECURSIVE TicketRows(_)
TicketRows(tickets) ==
    IF tickets = <<>> THEN <<>>
    ELSE LET ticket == Head(tickets)
             prLink == IF ticket.linkedPRNumber # 0
                       THEN <<"#", ToString(ticket.linkedPRNumber)>> ELSE <<"EM DASH">>
         IN  <<"|"," ","[">> \o ticket.key \o <<"]","(","ticket.url",")"," ","|"," ",
                 "ticket.summary"," ","|"," ",ticket.status," ","|"," ">> \o prLink \o <<" ","|">>
                 \o NL \o TicketRows(Tail(tickets))

RECURSIVE WarningLines(_)
WarningLines(warnings) ==
    IF warnings = <<>> THEN <<>>
    ELSE <<"-"," ","WARNING SIGN"," ",Head(warnings).message>> \o NL
            \o WarningLines(Tail(warnings))

\* renderStatusTables(pullRequests, tickets, reconciliation)
renderStatusTables(prs, tickets, r) ==
    <<"-","-","-">> \o NL \o NL
    \o <<"#","#"," ","Open Pull Requests">> \o NL \o NL
    \o (IF Len(prs) = 0 THEN <<"_","No open PRs","_">> \o NL \o NL
        ELSE <<"|"," ","PR"," ","|"," ","Title"," ","|"," ","HIL Checks"," ","|"," ","Approved"," ","|">> \o NL
             \o <<"|",":","-","-","-","|",":","-","-","-","-","-","-","|">> \o NL
             \o PRRows(prs) \o NL)
    \o <<"#","#"," ","In-Progress Tickets">> \o NL \o NL
    \o (IF Len(tickets) = 0 THEN <<"_","No in-progress tickets","_">> \o NL \o NL
        ELSE <<"|"," ","Ticket"," ","|"," ","Summary"," ","|"," ","Status"," ","|"," ","PR"," ","|">> \o NL
             \o <<"|",":","-","-","-","-","-","-","-","|",":","-","-","-","|">> \o NL
             \o TicketRows(tickets) \o NL)
    \o (IF Len(r.warnings) > 0
        THEN <<"#","#"," ","Reconciliation Notes">> \o NL \o NL
             \o WarningLines(r.warnings) \o NL
        ELSE <<>>)

\* Drafts, PR lists and ticket lists of a run that reaches the save.
SaveDrafts ==
    TriageDrafts \cup { DraftOf(<<EntryTwoLines>>, <<EntryRule>>, <<EntryA, EntryBC>>),
                        DraftOf(<<EntryA \o NL \o RuleLine \o NL \o OpenTaskLine>>, <<>>, <<EntryBC>>) }

SavePRLists ==
    { <<>>, << PR(1, FSW12, FALSE, "null") >>,
      << PR(3, FSW12, TRUE, "false"), PR(5, <<>>, FALSE, "true") >> }

SaveTicketLists ==
    { <<>>,
      << [key |-> fsw12, status |-> "In Review", hasLinkedPR |-> FALSE, linkedPRNumber |-> 0] >>,
      << [key |-> FSW13, status |-> "In Review", hasLinkedPR |-> FALSE, linkedPRNumber |-> 0],
         [key |-> FSW12, status |-> "In Progress", hasLinkedPR |-> FALSE, linkedPRNumber |-> 0] >> }

\* The state when generateDailyFocus has a final draft: the context is
\* gathered, nothing is rendered yet.
InitSave ==
    /\ parserVersion \in ParserVersions
    /\ lines = <<>> /\ currentSection = "null"
    /\ agenda = EmptyAgenda /\ stopped = FALSE
    /\ draft \in SaveDrafts
    /\ markdown = <<>>
    /\ parsed = <<>>
    /\ githubFetch = "resolved" /\ jiraFetch = "resolved"
    /\ pullRequests \in SavePRLists
    /\ jiraTickets \in SaveTicketLists
    /\ reconciliation = << reconcile(pullRequests, jiraTickets) >>
    /\ updatedTickets = UpdateTickets(jiraTickets, reconcile(pullRequests, jiraTickets))
    /\ UnclearIdle /\ MergeIdle /\ DedupeIdle /\ TaskIdle /\ ScheduleIdle /\ GenerateIdle

\* Lines 704-711: finalContent += renderStatusTables(...), if there is a PR
\* or a ticket.
AppendStatusTables ==
    /\ parsed = <<>>
    /\ markdown = renderAgendaToMarkdown(draft, Today)
    /\ IF Len(pullRequests) > 0 THEN TRUE ELSE Len(updatedTickets) > 0
    /\ markdown' = markdown \o renderStatusTables(pullRequests, updatedTickets, reconciliation[1])
    /\ UNCHANGED <<draft, parsed, parseVars, gatherVars, unclearVars, mergeVars, dedupeVars, taskVars, scheduleVars, generateVars>>

NextSave == Render \/ AppendStatusTables \/ Parse

SpecSave == InitSave /\ [][NextSave]_vars

\* The lines before the first line whose trimmed text is `---` (all lines
\* if there is none).
BeforeRule(ls) ==
    LET rules == { i \in 1..Len(ls) : trim(ls[i]) = <<"-","-","-">> }
    IN  IF rules = {} THEN ls
        ELSE SubSeq(ls, 1, (CHOOSE i \in rules : \A j \in rules : i <= j) - 1)

TablesAppended == markdown # <<>> /\ markdown # renderAgendaToMarkdown(draft, Today)

\* C19.  Parsing the saved note gives what parsing the rendered draft alone
\* gives, whether or not the status tables were appended, and gives what
\* parsing only the lines before the first `---` line gives: no line at or
\* after that line adds an entry.
C19_TablesExcluded ==
    parsed # <<>> =>
      /\ parsed[1] = parseMarkdownToAgenda(renderAgendaToMarkdown(draft, Today), parserVersion)
      /\ parsed[1] = ScanLines(ScanStart, BeforeRule(split(markdown)), parserVersion).agenda

\* C19 witness: tables with a PR row, ticket rows and reconciliation notes
\* were appended to a draft with entries, and the parse returned the entries.
C19_Witness ==
    /\ parsed # <<>>
    /\ TablesAppended
    /\ Len(pullRequests) = 2 /\ Len(updatedTickets) = 2
    /\ Len(reconciliation[1].warnings) > 0
    /\ draft = DraftOf(<<TaskAb, TaskCd>>, <<>>, <<TaskAbLong>>)
    /\ parsed[1] = draft

----------------------------------------------------------------------------
(* Streak identity (main.ts lines 300-302 and 338-356).                    *)

\* The words of a text: its maximal runs of non-whitespace characters, in
\* lower case.
RECURSIVE WordsOf(_, _, _)
WordsOf(s, word, acc) ==
    IF s = <<>> THEN (IF word = <<>> THEN acc ELSE Append(acc, word))
    ELSE IF Head(s) \in Whitespace
         THEN WordsOf(Tail(s), <<>>, IF word = <<>> THEN acc ELSE Append(acc, word))
         ELSE WordsOf(Tail(s), Append(word, LowerChar(Head(s))), acc)

\* Two texts differ at most in letter case, in surrounding whitespace and in
\* the whitespace that separates their words.
SameText(a, b) == WordsOf(a, <<>>, <<>>) = WordsOf(b, <<>>, <<>>)

\* The texts of the incomplete tasks of snapshot i of a walk.
OpenTexts(walk, i) ==
    { walk[i].tasks[u].text : u \in { v \in Indices(walk[i].tasks) : ~walk[i].tasks[v].complete } }

\* Snapshot i of the walk is the calendar day before snapshot i - 1.
DayBefore(walk, i) ==
    i > 1 /\ DayNumber(walk[i - 1].date) - DayNumber(walk[i].date) = 1

StreaksOf(map, text) == { k \in DOMAIN map : SameText(k, text) }

C20_Step ==
    recentAgendas' # recentAgendas =>
      LET walk == recentAgendas'
          n == Len(walk)
      IN \A text \in OpenTexts(walk, n) :
           /\ Cardinality(StreaksOf(streaks', text)) = 1
           /\ \A k \in StreaksOf(streaks', text) :
                 streaks'[k].count > 1 <=>
                   /\ DayBefore(walk, n)
                   /\ \E u \in OpenTexts(walk, n - 1) : SameText(u, text)

\* C20.  Every incomplete task of a snapshot has one streak, and the streak
\* continues the one of the snapshot walked before it (its count exceeds 1)
\* exactly when that snapshot is the next calendar day and holds an
\* incomplete task whose text differs at most in case and whitespace: a text
\* that differs in any other way, a prefix included, starts at 1.
C20_ExactNormalisedIdentity == [][C20_Step]_vars

\* Three consecutive days, most recent first: "Do it", then "do  it" (one
\* streak of two days), then "Do" with "Do it" complete ("Do" starts at 1).
C20_Witness ==
    /\ Walked = 3 /\ DaysApart(1) = 1 /\ DaysApart(2) = 1
    /\ DoIt \in OpenTexts(recentAgendas, 1)
    /\ doIt2 \in OpenTexts(recentAgendas, 2)
    /\ <<"D","o">> \in OpenTexts(recentAgendas, 3)
    /\ DoIt \notin OpenTexts(recentAgendas, 3)
    /\ streaks[<<"d","o">>].count = 1
    /\ ~MapHas(streaks, <<"d","o"," ","i","t">>)

----------------------------------------------------------------------------
(* Streak bookkeeping of detectUnclearItems (main.ts lines 338-388).       *)

\* Snapshots first..last are consecutive days, most recent first, and all
\* hold the key incomplete (under "Focus today" when focusOnly).
UnbrokenRun(first, last, k, focusOnly) ==
    /\ 1 <= first /\ first <= last /\ last <= Walked
    /\ \A j \in first..last : k \in KeysOn(j, focusOnly)
    /\ \A j \in first..(last - 1) : DaysApart(j) = 1

\* The streak of key k in the map is the run that ends at the snapshot
\* processed last, and its startDate is the date of the run's first-processed
\* snapshot.
StartsAtFirstProcessed(map, k, focusOnly) ==
    LET first == Walked - map[k].count + 1
    IN /\ UnbrokenRun(first, Walked, k, focusOnly)
       /\ map[k].startDate = recentAgendas[first].date
       /\ DayNumber(map[k].startDate) = DayNumber(recentAgendas[Walked].date) + map[k].count - 1

\* The item's source is the date of the first-processed snapshot of a run of
\* `days` snapshots that hold its task.
SourceIsMostRecentOfRun(item) ==
    \E first \in 1..Walked :
        /\ UnbrokenRun(first, first + item.days - 1,
                       normalizeTaskText(item.task), item.rule = "focus")
        /\ item.source = recentAgendas[first].date

\* C21.  The startDate of every streak is the date of the first-processed
\* (most recent) snapshot of its unbroken run, and the source of every emitted
\* item is the date of the first-processed snapshot of the run that made it
\* qualify, not the earliest date of that run.
C21_StartDateIsMostRecent ==
    /\ \A k \in DOMAIN streaks : StartsAtFirstProcessed(streaks, k, FALSE)
    /\ \A k \in DOMAIN focusStreaks : StartsAtFirstProcessed(focusStreaks, k, TRUE)
    /\ \A r \in Indices(results) : SourceIsMostRecentOfRun(results[r])

\* C21 witness: a run of three days made an item whose source is the date of
\* the snapshot processed first, two days after the date of the snapshot
\* processed last, and the streak still carries that date.
C21_Witness ==
    /\ Walked = 3
    /\ \E r \in Indices(results) :
          /\ results[r].rule = "incomplete"
          /\ results[r].source = recentAgendas[1].date
          /\ DayNumber(results[r].source) = DayNumber(recentAgendas[3].date) + 2
          /\ streaks[normalizeTaskText(results[r].task)].startDate = recentAgendas[1].date

\* The map holds exactly the keys that qualify in the snapshot processed
\* last, and a key that did not qualify in the snapshot before it has count 1.
CarriedFromPreviousOnly(map, focusOnly) ==
    /\ DOMAIN map = (IF Walked = 0 THEN {} ELSE KeysOn(Walked, focusOnly))
    /\ Walked >= 2 =>
          \A k \in KeysOn(Walked, focusOnly) \ KeysOn(Walked - 1, focusOnly) :
              map[k].count = 1

\* C25.  A streak count carries over only from the snapshot processed
\* immediately before: a task that is absent or complete there has count 1 in
\* the all-tasks map, a task that is not incomplete under "Focus today" there
\* has count 1 in the Focus-today map, and a task incomplete in the first and
\* third of three snapshots but not in the second has no 3-day item.
C25_CarryFromPreviousOnly ==
    /\ CarriedFromPreviousOnly(streaks, FALSE)
    /\ CarriedFromPreviousOnly(focusStreaks, TRUE)
    /\ Walked = 3 =>
          \A k \in (KeysOn(1, FALSE) \cap KeysOn(3, FALSE)) \ KeysOn(2, FALSE) :
              \A r \in ItemsFor(k) : results[r].rule # "incomplete"

\* C25 witness: three consecutive days; "Do it" is incomplete under "Focus
\* today" on the first and third, complete on the second; both of its counts
\* restarted at 1 and it has no item.
C25_Witness ==
    /\ Walked = 3 /\ DaysApart(1) = 1 /\ DaysApart(2) = 1
    /\ \E k \in (KeysOn(1, TRUE) \cap KeysOn(3, TRUE)) \ KeysOn(2, FALSE) :
          /\ \E u \in Indices(recentAgendas[2].tasks) :
                /\ recentAgendas[2].tasks[u].complete
                /\ normalizeTaskText(recentAgendas[2].tasks[u].text) = k
          /\ streaks[k].count = 1 /\ focusStreaks[k].count = 1
          /\ ItemsFor(k) = {}

\* The incomplete tasks of snapshot i whose text normalises to k.
OccurrencesOn(i, k) ==
    { u \in Indices(recentAgendas[i].tasks) :
        /\ ~recentAgendas[i].tasks[u].complete
        /\ normalizeTaskText(recentAgendas[i].tasks[u].text) = k }

----------------------------------------------------------------------------
(* The lists of a ReconciliationResult (reconciler.ts lines 33-83).        *)

\* No element of list a is an element of list b.
NoneShared(a, b) == \A i \in Indices(a) : \A j \in Indices(b) : a[i] # b[j]

\* C28.  reconcile partitions its inputs: the matched and the unmatched PRs
\* together are the input PRs, each exactly once and none in both lists, and
\* the matched and the unmatched tickets together are the input tickets, each
\* exactly once and none in both lists.
C28_Partition ==
    Reconciled =>
      /\ SameBag(Result.matchedPRs \o Result.unmatchedPRs, pullRequests)
      /\ NoneShared(Result.matchedPRs, Result.unmatchedPRs)
      /\ SameBag(Result.matchedTickets \o Result.unmatchedTickets, jiraTickets)
      /\ NoneShared(Result.matchedTickets, Result.unmatchedTickets)

\* C28 witness: of two PRs one was matched and one was not, and of two
\* tickets, one In Progress and one In Review, each is in one ticket list.
C28_Witness ==
    /\ Reconciled
    /\ Len(Result.matchedPRs) = 1 /\ Len(Result.unmatchedPRs) = 1
    /\ Len(jiraTickets) = 2
    /\ jiraTickets[1].status = "In Progress" /\ jiraTickets[2].status = "In Review"
    /\ Len(Result.matchedTickets) + Len(Result.unmatchedTickets) = 2

----------------------------------------------------------------------------
(* TaskParser (src/src/services/task-parser.ts)                            *)

\* The tail of /\s+(.+)$/ on what follows a marker: <<>> for no match, else
\* <<capture>>.  \s+ is greedy and gives characters back until (.+)$ can
\* match: at least one character up to the end, none a line terminator.
SpaceThenText(rest) ==
    LET lead == Len(rest) - Len(TrimStart(rest))
        starts == { p \in 1..lead :
                      /\ p < Len(rest)
                      /\ \A i \in (p + 1)..Len(rest) : rest[i] \notin LineTerminators }
    IN IF starts = {} THEN <<>>
       ELSE << SubSeq(rest, (CHOOSE q \in starts : \A r \in starts : r <= q) + 1, Len(rest)) >>

\* HeadingMatch for level-2 headings only, /^##\s+(.+)$/.
HeadingMatch_LevelTwoOnly(line) ==
    IF Len(line) >= 2 /\ SubSeq(line, 1, 2) = <<"#","#">>
    THEN SpaceThenText(SubSeq(line, 3, Len(line))) ELSE <<>>

\* line.match(PATTERNS.heading), /^#{1,6}\s+(.+)$/: <<>> for null, else <<capture>>.
HeadingMatch(line) ==
    LET hashes == CHOOSE n \in 0..Len(line) :
                     /\ \A i \in 1..n : line[i] = "#"
                     /\ n < Len(line) => line[n + 1] # "#"
    IN IF hashes \in 1..6 THEN SpaceThenText(SubSeq(line, hashes + 1, Len(line))) ELSE <<>>

\* line.match(PATTERNS.bullet), /^[-*+]\s+(.+)$/
BulletMatch(line) ==
    IF line # <<>> /\ Head(line) \in {"-", "*", "+"} THEN SpaceThenText(Tail(line)) ELSE <<>>

\* line.match(PATTERNS.boldLine), /^\*\*(.+)\*\*\s*$/: the greedy capture
\* runs up to the last ** before the trailing whitespace.
BoldLineMatch(line) ==
    LET t == TrimEnd(line)
    IN IF /\ Len(t) >= 5
          /\ SubSeq(t, 1, 2) = <<"*","*">>
          /\ SubSeq(t, Len(t) - 1, Len(t)) = <<"*","*">>
          /\ \A i \in 3..(Len(t) - 2) : t[i] \notin LineTerminators
       THEN << SubSeq(t, 3, Len(t) - 2) >> ELSE <<>>

ACTION_ITEM_SECTIONS ==
    { <<"a","c","t","i","o","n"," ","i","t","e","m","s">>,
      <<"s","u","g","g","e","s","t","e","d"," ","n","e","x","t"," ","s","t","e","p","s">>,
      <<"n","e","x","t"," ","s","t","e","p","s">>,
      <<"a","c","t","i","o","n"," ","p","o","i","n","t","s">>,
      <<"t","o","d","o","s">>,
      <<"t","o","-","d","o","s">>,
      <<"t","a","s","k","s">> }

\* .replace(/[\s:<fullwidth colon>\-<en dash><em dash>]+$/g, "")
RECURSIVE StripTrailingDelimiters(_)
StripTrailingDelimiters(s) ==
    IF s # <<>> /\ s[Len(s)] \in Whitespace \cup {":", "FULLWIDTH COLON", "-", "EN DASH", "EM DASH"}
    THEN StripTrailingDelimiters(SubSeq(s, 1, Len(s) - 1)) ELSE s

normalizeSectionTitle(sectionTitle) ==
    trim(StripTrailingDelimiters(CollapseWhitespace(toLowerCase(trim(sectionTitle)))))

isActionItemSection(sectionTitle) ==
    \E section \in ACTION_ITEM_SECTIONS :
        \/ normalizeSectionTitle(sectionTitle) = section
        \/ startsWith(normalizeSectionTitle(sectionTitle), section \o <<" ">>)

\* extractSectionTitleFromLine that takes every non-blank line that is no
\* heading and no bold-only line for a section marker.
extractSectionTitleFromLine_AnyLine(line) ==
    IF trim(line) = <<>> THEN <<>>
    ELSE IF HeadingMatch(trim(line)) # <<>> THEN << trim(HeadingMatch(trim(line))[1]) >>
    ELSE IF BoldLineMatch(trim(line)) # <<>> THEN << trim(BoldLineMatch(trim(line))[1]) >>
    ELSE << trim(line) >>

\* extractSectionTitleFromLine: <<>> for null, else <<title>>.
extractSectionTitleFromLine(line) ==
    IF trim(line) = <<>> THEN <<>>
    ELSE IF HeadingMatch(trim(line)) # <<>> THEN << trim(HeadingMatch(trim(line))[1]) >>
    ELSE IF BoldLineMatch(trim(line)) # <<>> THEN << trim(BoldLineMatch(trim(line))[1]) >>
    ELSE IF isActionItemSection(trim(line)) THEN << trim(line) >>
    ELSE <<>>

MaxNoteLines == 3

\* Lines of a note (content.split("\n"): no line holds a line feed).
NoteLinePool ==
    { <<"#"," ","T","o","p">>,   \* a level-1 heading
      <<"#","#","#","#","#","#"," ","A","c","t","i","o","n"," ","i","t","e","m","s",":">>,   \* a level-6 heading, an action-items title
      <<"#","#","#","#","#","#","#"," ","D","e","e","p">>,   \* seven # characters
      <<" "," ","#","#"," ","N","o","t","e","s">>,   \* an indented heading
      <<"*","*","N","e","x","t"," ","s","t","e","p","s","*","*">>,   \* a bold-only line, an action-items title
      <<"*","*","S","u","m","m","a","r","y","*","*">>,   \* a bold-only line
      <<"*","*"," ","*","*">>,   \* two pairs of asterisks around a blank
      <<"T","a","s","k","s"," ","f","o","r"," ","B","o","b">>,   \* a bare line that begins with a synonym
      <<"p","r","o","s","e">>,   \* an ordinary line
      <<"-"," ","["," ","]"," ","a">>,   \* an open checkbox
      <<"-","[","X","]"," ","B"," ">>,   \* a checked checkbox, tight, trailing blank
      <<"*"," ","c">>,   \* a plain bullet
      <<"-"," ","["," ","]"," ","d","\r">>,   \* a checkbox line of a CRLF file
      <<>> }   \* an empty line

InitTasks ==
    /\ taskParser \in {"parseAgendaTasks", "parseActionItems"}
    /\ noteLines = <<>>
    /\ taskSection = <<>>
    /\ agendaTasks = <<>>
    /\ inActionItemsSection = FALSE
    /\ actionItems = <<>>
    /\ GatherIdle /\ UnclearIdle /\ ParseIdle /\ RoundTripIdle /\ MergeIdle /\ DedupeIdle /\ ScheduleIdle /\ GenerateIdle

\* One iteration of the loop of parseAgendaTasks (lines 45-67).
AgendaTaskLine(line) ==
    /\ taskParser = "parseAgendaTasks"
    /\ Len(noteLines) < MaxNoteLines
    /\ noteLines' = Append(noteLines, line)
    /\ IF HeadingMatch(line) # <<>>
       THEN taskSection' = trim(HeadingMatch(line)[1]) /\ agendaTasks' = agendaTasks
       ELSE /\ taskSection' = taskSection
            /\ agendaTasks' = IF TaskMatch(line) # <<>>
                         THEN Append(agendaTasks, Task(trim(TaskMatch(line)[1].text), taskSection,
                                                 LowerChar(TaskMatch(line)[1].checkbox) = "x"))
                         ELSE agendaTasks
    /\ UNCHANGED <<taskParser, inActionItemsSection, actionItems>>
    /\ UNCHANGED <<gatherVars, unclearVars, parseVars, roundTripVars, mergeVars, dedupeVars, scheduleVars, generateVars>>

\* One iteration of the loop of parseActionItems (lines 138-172).  A title
\* that is the empty string is falsy in `if (sectionTitle)`.
ActionItemLine(line) ==
    /\ taskParser = "parseActionItems"
    /\ Len(noteLines) < MaxNoteLines
    /\ noteLines' = Append(noteLines, line)
    /\ IF extractSectionTitleFromLine(line) \notin {<<>>, << <<>> >>}
       THEN /\ inActionItemsSection' = isActionItemSection(extractSectionTitleFromLine(line)[1])
            /\ actionItems' = actionItems
       ELSE /\ inActionItemsSection' = inActionItemsSection
            /\ actionItems' =
                  IF ~inActionItemsSection THEN actionItems
                  ELSE IF TaskMatch(line) # <<>>
                       THEN Append(actionItems, trim(TaskMatch(line)[1].text))
                  ELSE IF BulletMatch(line) # <<>>
                       THEN Append(actionItems, trim(BulletMatch(line)[1]))
                  ELSE actionItems
    /\ UNCHANGED <<taskParser, taskSection, agendaTasks>>
    /\ UNCHANGED <<gatherVars, unclearVars, parseVars, roundTripVars, mergeVars, dedupeVars, scheduleVars, generateVars>>

NextTasks ==
    \E line \in NoteLinePool : AgendaTaskLine(line) \/ ActionItemLine(line)

SpecTasks == InitTasks /\ [][NextTasks]_vars

----------------------------------------------------------------------------
(* Claims about TaskParser, checked under SpecTasks.  Every reachable      *)
(* state is the state in which the method returns for the content whose    *)
(* lines are noteLines.                                                    *)

\* The line is an ATX heading: 1 to 6 # characters at its start, whitespace,
\* and a title that runs to the end of the line.
AtxLevel(line) ==
    { n \in 1..6 :
        /\ Len(line) >= n + 2
        /\ \A i \in 1..n : line[i] = "#"
        /\ line[n + 1] \in Whitespace
        /\ \A i \in (n + 2)..Len(line) : line[i] \notin LineTerminators }

AtxTitle(line) ==
    LET n == CHOOSE m \in AtxLevel(line) : TRUE
    IN trim(SubSeq(line, n + 1, Len(line)))

\* The lines of the content that are checkbox lines (PATTERNS.task).
CheckboxLines == { i \in Indices(noteLines) : TaskMatch(noteLines[i]) # <<>> }

\* The title of the nearest ATX heading above line i, "" when there is none.
SectionAbove(i) ==
    LET above == { j \in 1..(i - 1) : AtxLevel(noteLines[j]) # {} }
    IN IF above = {} THEN <<>>
       ELSE AtxTitle(noteLines[CHOOSE j \in above : \A k \in above : k <= j])

BoldTitle(t) ==
    IF /\ Len(t) >= 5
       /\ t[1] = "*" /\ t[2] = "*" /\ t[Len(t) - 1] = "*" /\ t[Len(t)] = "*"
       /\ \A i \in 3..(Len(t) - 2) : t[i] \notin LineTerminators
       /\ trim(SubSeq(t, 3, Len(t) - 2)) # <<>>
    THEN << trim(SubSeq(t, 3, Len(t) - 2)) >> ELSE <<>>

\* The title of a section marker: an ATX heading, a bold-only line, or a
\* bare line that equals or begins with an action-items synonym; <<>> when
\* the line is no marker.  Markers are recognised on the trimmed line.
MarkerTitle(line) ==
    IF AtxLevel(trim(line)) # {} THEN << AtxTitle(trim(line)) >>
    ELSE IF BoldTitle(trim(line)) # <<>> THEN BoldTitle(trim(line))
    ELSE IF trim(line) # <<>> /\ isActionItemSection(trim(line)) THEN << trim(line) >>
    ELSE <<>>

\* The most recent section marker above line i is an action-items marker.
InActionItems(i) ==
    LET above == { j \in 1..(i - 1) : j <= Len(noteLines) /\ MarkerTitle(noteLines[j]) # <<>> }
    IN /\ above # {}
       /\ isActionItemSection(
              MarkerTitle(noteLines[CHOOSE j \in above : \A k \in above : k <= j])[1])

\* The checkbox lines and plain bullet lines inside an action-items section.
ItemLines ==
    { i \in Indices(noteLines) :
        /\ MarkerTitle(noteLines[i]) = <<>>
        /\ InActionItems(i)
        /\ TaskMatch(noteLines[i]) # <<>> \/ BulletMatch(noteLines[i]) # <<>> }

ItemText(line) ==
    IF TaskMatch(line) # <<>> THEN trim(TaskMatch(line)[1].text) ELSE trim(BulletMatch(line)[1])

\* C23.  parseActionItems collects exactly the checkbox lines and plain
\* bullet lines whose most recent section marker above is an action-items
\* marker, in document order: nothing before the first marker, nothing after
\* a heading or bold-only line with another title, and a line that is no
\* marker leaves the section open.
C23_CollectedOnlyInSection ==
    taskParser = "parseActionItems" =>
      /\ inActionItemsSection = InActionItems(Len(noteLines) + 1)
      /\ Len(actionItems) = Cardinality(ItemLines)
      /\ \A i \in ItemLines :
            actionItems[Cardinality({ j \in ItemLines : j <= i })] = ItemText(noteLines[i])

\* C23 witness: an action-items marker, an ordinary line, a plain bullet:
\* the bullet was collected.
C23_Witness ==
    /\ taskParser = "parseActionItems"
    /\ Len(noteLines) = 3
    /\ MarkerTitle(noteLines[1]) # <<>>
    /\ noteLines[2] = <<"p","r","o","s","e">>
    /\ noteLines[3] = <<"*"," ","c">>
    /\ actionItems = << <<"c">> >>

----------------------------------------------------------------------------
(* DailyFocusPlugin.scheduleNotification (main.ts lines 174-290), for one  *)
(* check-in type.  Each of "morning", "midday" and "eod" has its own time  *)
(* setting and its own state object, and checkNotification reads and       *)
(* writes only the ones it is handed.  Time is counted in minutes; a day   *)
(* has MinutesPerDay of them.                                              *)

MaxDays == 2
MinutesPerDay == 5
MaxInterval == 2

\* now.getTime(), in minutes.
CurrentTime(day, minute) == day * MinutesPerDay + minute

\* Lines 189-200 and 212-218: the completed flag and the reminder time are
\* cleared when the last notification was not sent today.
ResetForNewDay(state, day) ==
    IF state.lastNotified # day
    THEN [state EXCEPT !.completed = FALSE, !.lastReminderTime = 0]
    ELSE state

\* checkNotification that sends a follow-up on every tick.
checkNotification_EveryTick(state, scheduled, day, minute, interval) ==
    IF minute < scheduled THEN [state |-> state, sent |-> "none"]
    ELSE IF state.completed /\ state.lastNotified = day THEN [state |-> state, sent |-> "none"]
    ELSE IF state.lastNotified # day
         THEN IF minute = scheduled
              THEN [state |-> [state EXCEPT !.lastNotified = day,
                                            !.lastReminderTime = CurrentTime(day, minute)],
                    sent |-> "initial"]
              ELSE [state |-> state, sent |-> "none"]
    ELSE IF ~state.completed
         THEN [state |-> [state EXCEPT !.lastReminderTime = CurrentTime(day, minute)],
               sent |-> "reminder"]
    ELSE [state |-> state, sent |-> "none"]

\* checkNotification (lines 221-251): the state it leaves and what it sent.
checkNotification(state, scheduled, day, minute, interval) ==
    IF minute < scheduled THEN [state |-> state, sent |-> "none"]
    ELSE IF state.completed /\ state.lastNotified = day THEN [state |-> state, sent |-> "none"]
    ELSE IF state.lastNotified # day
         THEN IF minute = scheduled
              THEN [state |-> [state EXCEPT !.lastNotified = day,
                                            !.lastReminderTime = CurrentTime(day, minute)],
                    sent |-> "initial"]
              ELSE [state |-> state, sent |-> "none"]
    ELSE IF ~state.completed /\ CurrentTime(day, minute) - state.lastReminderTime >= interval
         THEN [state |-> [state EXCEPT !.lastReminderTime = CurrentTime(day, minute)],
               sent |-> "reminder"]
    ELSE [state |-> state, sent |-> "none"]

\* The plugin is loaded on day 1 with the type's time and the interval set
\* (lines 52-56: nothing notified, nothing completed).
InitSchedule ==
    /\ scheduledMinute \in 0..(MinutesPerDay - 1)
    /\ reminderInterval \in 1..MaxInterval
    /\ todayStr = 1
    /\ minuteNow \in 0..(MinutesPerDay - 1)
    /\ notificationState = [lastNotified |-> 0, completed |-> FALSE, lastReminderTime |-> 0]
    /\ markedToday = FALSE
    /\ sentToday = <<>>
    /\ GatherIdle /\ UnclearIdle /\ ParseIdle /\ RoundTripIdle /\ MergeIdle /\ DedupeIdle /\ TaskIdle /\ GenerateIdle

\* The wall clock reaches the next minute, and the next day after the last
\* minute of a day.
MinutePasses ==
    /\ IF minuteNow + 1 < MinutesPerDay
       THEN minuteNow' = minuteNow + 1 /\ UNCHANGED <<todayStr, markedToday, sentToday>>
       ELSE /\ todayStr < MaxDays
            /\ minuteNow' = 0 /\ todayStr' = todayStr + 1
            /\ markedToday' = FALSE /\ sentToday' = <<>>
    /\ UNCHANGED <<scheduledMinute, reminderInterval, notificationState>>
    /\ UNCHANGED <<gatherVars, unclearVars, parseVars, roundTripVars, mergeVars, dedupeVars, taskVars, generateVars>>

\* saveSettings with a new time for the type: scheduleNotification clears
\* the interval, resets the state for a new day and starts a new interval.
ScheduleNotification(newTime) ==
    /\ scheduledMinute' = newTime
    /\ notificationState' = ResetForNewDay(notificationState, todayStr)
    /\ UNCHANGED <<reminderInterval, todayStr, minuteNow, markedToday, sentToday>>
    /\ UNCHANGED <<gatherVars, unclearVars, parseVars, roundTripVars, mergeVars, dedupeVars, taskVars, generateVars>>

\* One run of the setInterval callback (lines 206-287).
Tick ==
    /\ \E r \in { checkNotification(ResetForNewDay(notificationState, todayStr),
                                     scheduledMinute, todayStr, minuteNow, reminderInterval) } :
          /\ notificationState' = r.state
          /\ sentToday' = IF r.sent = "none" THEN sentToday
                          ELSE Append(sentToday, [kind |-> r.sent, minute |-> minuteNow])
    /\ UNCHANGED <<scheduledMinute, reminderInterval, todayStr, minuteNow, markedToday>>
    /\ UNCHANGED <<gatherVars, unclearVars, parseVars, roundTripVars, mergeVars, dedupeVars, taskVars, generateVars>>

\* markCheckinComplete(type), lines 295-298.
MarkCheckinComplete ==
    /\ notificationState' = [notificationState EXCEPT !.completed = TRUE]
    /\ markedToday' = TRUE
    /\ UNCHANGED <<scheduledMinute, reminderInterval, todayStr, minuteNow, sentToday>>
    /\ UNCHANGED <<gatherVars, unclearVars, parseVars, roundTripVars, mergeVars, dedupeVars, taskVars, generateVars>>

NextSchedule ==
    \/ MinutePasses
    \/ \E newTime \in 0..(MinutesPerDay - 1) : ScheduleNotification(newTime)
    \/ Tick
    \/ MarkCheckinComplete

SpecSchedule == InitSchedule /\ [][NextSchedule]_vars

----------------------------------------------------------------------------
(* Claims about the notification scheduler, checked under SpecSchedule     *)

\* C24 (as claimed).  Once markCheckinComplete has run on a day, no later
\* tick of that day sends a notification of the type, initial or follow-up.
C24_CompleteStopsReminders ==
    [][(sentToday' # sentToday /\ todayStr' = todayStr) => ~markedToday]_vars

\* C29.  On each calendar day the initial notification is sent at most once,
\* a follow-up is sent only after that day's initial notification, and two
\* consecutive notifications are at least reminderInterval minutes apart.
C29_NotificationsSpaced ==
    /\ Cardinality({ i \in Indices(sentToday) : sentToday[i].kind = "initial" }) <= 1
    /\ sentToday # <<>> => sentToday[1].kind = "initial"
    /\ \A i \in 1..(Len(sentToday) - 1) :
          sentToday[i + 1].minute - sentToday[i].minute >= reminderInterval

\* C29 witness: on the second day the initial notification and a follow-up
\* were sent, the time setting was changed after the initial notification,
\* and the check-in was then completed.
C29_Witness ==
    /\ todayStr = 2
    /\ Len(sentToday) = 2
    /\ sentToday[1].kind = "initial" /\ sentToday[2].kind = "reminder"
    /\ scheduledMinute > sentToday[1].minute
    /\ notificationState.completed

-----------------------------------------------------------------------------
(* generateDailyFocus, steps 4 to 6: the triage scan with its retries, the  *)
(* status update with the refinement or its fallback, and the draft that    *)
(* goes to the review and to renderAgendaToMarkdown.                        *)

\* triageScanWithRetry(context, maxRetries = 2); generateDailyFocus passes
\* no second argument.
MaxRetries == 2

\* The draft agendas a response of the model may hold before it is parsed.
LLMDrafts ==
    { EmptyAgenda,
      DraftOf(<<TaskAb>>, <<TaskCd>>, <<>>),
      DraftOf(<<<<"e">>, <<"f">>, <<"g">>>>, <<>>, <<TaskCd>>),
      DraftOf(<<<<"e">>, <<"f">>, <<"g">>, <<"h">>>>, <<TaskAb>>, <<>>) }

\* parseResponse and parseRefinementResponse: focus_today.slice(0, 3), the
\* other two lists as they are.
parseResponse(raw) ==
    [raw EXCEPT !.focusToday =
        SubSeq(raw.focusToday, 1, IF Len(raw.focusToday) < 3 THEN Len(raw.focusToday) ELSE 3)]

InitGenerate ==
    /\ pc = "triageScan"
    /\ attempt = 0
    /\ lastError = <<>>
    /\ outcomes = <<>>
    /\ delays = <<>>
    /\ retryResult = <<>>
    /\ triageResponse = EmptyAgenda
    /\ finalDraft = <<>>
    /\ path = "none"
    /\ GatherIdle /\ UnclearIdle /\ ParseIdle /\ RoundTripIdle /\ MergeIdle /\ DedupeIdle
    /\ TaskIdle /\ ScheduleIdle

\* try { return await this.triageScan(context) }: the call resolves.
AttemptSucceeds(raw) ==
    /\ pc = "triageScan"
    /\ outcomes' = Append(outcomes, [ok |-> TRUE, value |-> parseResponse(raw)])
    /\ retryResult' = <<[kind |-> "returned", value |-> parseResponse(raw)]>>
    /\ triageResponse' = parseResponse(raw)
    /\ pc' = "statusUpdate"
    /\ UNCHANGED <<attempt, lastError, delays, finalDraft, path>>
    /\ UNCHANGED <<gatherVars, unclearVars, parseVars, roundTripVars, mergeVars, dedupeVars,
                   taskVars, scheduleVars>>

\* AttemptFails with the wait condition off by one: a timer is started after
\* the last attempt too and one more attempt follows it.
AttemptFails_OneMore(error) ==
    /\ pc = "triageScan"
    /\ outcomes' = Append(outcomes, [ok |-> FALSE, value |-> error])
    /\ lastError' = <<error>>
    /\ IF attempt < MaxRetries + 1
         THEN /\ delays' = Append(delays, (2 ^ attempt) * 1000)
              /\ pc' = "backoff"
              /\ UNCHANGED <<attempt, retryResult, triageResponse>>
         ELSE /\ attempt' = attempt + 1
              /\ retryResult' = <<[kind |-> "threw", value |-> error]>>
              /\ triageResponse' = EmptyAgenda
              /\ pc' = "statusUpdate"
              /\ UNCHANGED delays
    /\ UNCHANGED <<finalDraft, path>>
    /\ UNCHANGED <<gatherVars, unclearVars, parseVars, roundTripVars, mergeVars, dedupeVars,
                   taskVars, scheduleVars>>

\* catch (error): the call rejects. Before the last attempt a timer is
\* started; after it the loop ends, lastError is thrown and the catch of
\* generateDailyFocus makes the empty agenda.
AttemptFails(error) ==
    /\ pc = "triageScan"
    /\ outcomes' = Append(outcomes, [ok |-> FALSE, value |-> error])
    /\ lastError' = <<error>>
    /\ IF attempt < MaxRetries
         THEN /\ delays' = Append(delays, (2 ^ attempt) * 1000)
              /\ pc' = "backoff"
              /\ UNCHANGED <<attempt, retryResult, triageResponse>>
         ELSE /\ attempt' = attempt + 1
              /\ retryResult' = <<[kind |-> "threw", value |-> error]>>
              /\ triageResponse' = EmptyAgenda
              /\ pc' = "statusUpdate"
              /\ UNCHANGED delays
    /\ UNCHANGED <<finalDraft, path>>
    /\ UNCHANGED <<gatherVars, unclearVars, parseVars, roundTripVars, mergeVars, dedupeVars,
                   taskVars, scheduleVars>>

\* The timer of the backoff fires: attempt++ and the next round of the loop.
BackoffElapses ==
    /\ pc = "backoff"
    /\ attempt' = attempt + 1
    /\ pc' = "triageScan"
    /\ UNCHANGED <<lastError, outcomes, delays, retryResult, triageResponse, finalDraft, path>>
    /\ UNCHANGED <<gatherVars, unclearVars, parseVars, roundTripVars, mergeVars, dedupeVars,
                   taskVars, scheduleVars>>

\* Step 5 with no unclear item, or with a prompt that resolved nothing:
\* finalDraft stays triageResponse.draftAgenda.
NoClarification ==
    /\ pc = "statusUpdate"
    /\ finalDraft' = <<triageResponse>>
    /\ path' = "triage"
    /\ pc' = "review"
    /\ UNCHANGED <<attempt, lastError, outcomes, delays, retryResult, triageResponse>>
    /\ UNCHANGED <<gatherVars, unclearVars, parseVars, roundTripVars, mergeVars, dedupeVars,
                   taskVars, scheduleVars>>

\* Step 5b, refineAgenda resolves: finalDraft = refined.draftAgenda.
RefineSucceeds(raw) ==
    /\ pc = "statusUpdate"
    /\ finalDraft' = <<parseResponse(raw)>>
    /\ path' = "refined"
    /\ pc' = "review"
    /\ UNCHANGED <<attempt, lastError, outcomes, delays, retryResult, triageResponse>>
    /\ UNCHANGED <<gatherVars, unclearVars, parseVars, roundTripVars, mergeVars, dedupeVars,
                   taskVars, scheduleVars>>

\* Step 5b, refineAgenda rejects: the simple merge of the answers of the
\* prompt into the draft of the triage.
RefineFails(resolved) ==
    /\ pc = "statusUpdate"
    /\ Len(resolved) > 0
    /\ finalDraft' = <<mergeDraftWithResolutions(triageResponse, resolved)>>
    /\ path' = "fallback"
    /\ pc' = "review"
    /\ UNCHANGED <<attempt, lastError, outcomes, delays, retryResult, triageResponse>>
    /\ UNCHANGED <<gatherVars, unclearVars, parseVars, roundTripVars, mergeVars, dedupeVars,
                   taskVars, scheduleVars>>

NextGenerate ==
    \/ \E raw \in LLMDrafts : AttemptSucceeds(raw)
    \/ \E error \in {"timeout", "parse"} : AttemptFails(error)
    \/ BackoffElapses
    \/ NoClarification
    \/ \E raw \in LLMDrafts : RefineSucceeds(raw)
    \/ \E n \in 1..MaxResolutions : \E resolved \in [1..n -> ResolvedPool] : RefineFails(resolved)

SpecGenerate == InitGenerate /\ [][NextGenerate]_vars

\* Every call of triageScan settles and every timer fires.
SpecGenerateFair == SpecGenerate /\ WF_vars(NextGenerate)

\* C26: on every path through generateDailyFocus (the triage, the
\* refinement and the fallback merge) the draft handed to the review and to
\* renderAgendaToMarkdown has at most three entries in focusToday.
C26_FocusAtMostThree ==
    finalDraft # <<>> => Len(finalDraft[1].focusToday) <= 3

\* The attempts made so far that failed.
FailedAttempts == { i \in 1..Len(outcomes) : ~outcomes[i].ok }

\* What the retry loop has done so far is what the loop is said to do.
RetryAsDescribed ==
    /\ Len(outcomes) <= MaxRetries + 1
    /\ \A i \in 1..(Len(outcomes) - 1) : i \in FailedAttempts
    /\ (retryResult = <<>>) = (pc \in {"triageScan", "backoff"})
    /\ (outcomes # <<>> /\ outcomes[Len(outcomes)].ok) =>
          retryResult = <<[kind |-> "returned", value |-> outcomes[Len(outcomes)].value]>>
    /\ (retryResult # <<>> /\ retryResult[1].kind = "returned") =>
          /\ outcomes # <<>>
          /\ outcomes[Len(outcomes)].ok
          /\ retryResult[1].value = outcomes[Len(outcomes)].value
    /\ (retryResult # <<>> /\ retryResult[1].kind = "threw") =>
          /\ Len(outcomes) = MaxRetries + 1
          /\ FailedAttempts = 1..(MaxRetries + 1)
          /\ retryResult[1].value = outcomes[MaxRetries + 1].value
    /\ Len(delays) = Cardinality(FailedAttempts \cap 1..MaxRetries)
    /\ pc = "backoff" => Len(delays) = Len(outcomes)

\* C30: triageScanWithRetry makes at most maxRetries + 1 attempts, returns
\* the result of the first attempt that succeeds and attempts nothing after
\* it, throws the error of the last attempt only when all maxRetries + 1
\* attempts failed, waits after each failed attempt but the last, and comes
\* to an end when every attempt and every wait does.
C30_RetryBoundedAndEnds ==
    /\ []RetryAsDescribed
    /\ <>(retryResult # <<>>)

C30_Witness ==
    /\ retryResult # <<>>
    /\ retryResult[1].kind = "threw"
    /\ Len(outcomes) = MaxRetries + 1
    /\ delays = <<1000, 2000>>
    /\ retryResult[1].value # outcomes[1].value

=============================================================================
